---- MODULE Spec2Model ----
(***************************************************************************)
(* A model of the Move IR recursive-descent parser                         *)
(* (move-ir-to-bytecode/syntax/src/syntax.rs).                             *)
(*                                                                         *)
(* The parser is a family of procedures over one mutable Lexer cursor.     *)
(* Each procedure is an operator that takes the lexer state L and returns  *)
(* a result record [st, L, v, err]: st = "ok" with the value v, st = "err" *)
(* with the ParseError err, or st = "panic" for an abort (panic!, assert!, *)
(* unwrap on an error value).  The lexer state is returned in every case,  *)
(* as the Rust code mutates it through &mut.  Rust's `?` is the test       *)
(* "IF r.st # "ok" THEN r".                                                *)
(*                                                                         *)
(* The source text is a sequence of atoms: every punctuation character is  *)
(* an atom of its own, a blank is the atom " ", and a word (a name, a      *)
(* keyword, a number, an address) is one atom.  Byte offsets are sums of   *)
(* the atoms' lengths.                                                     *)
(***************************************************************************)
EXTENDS Integers, Sequences, FiniteSets, TLC

VARIABLES
    text,   \* the input string (Lexer.text), a sequence of atoms
    gen,    \* how the input was put together (read by the properties only)
    pc,     \* "input" before the call, "done" after it
    call,   \* the procedure that was applied to the input
    res     \* what the call returned

vars == <<text, gen, pc, call, res>>

(***************************************************************************)
(* Bounds of the model.                                                    *)
(***************************************************************************)
MaxOps == 3          \* binary operators in one generated expression
MaxDepth == 4        \* nesting depth of a generated vector type
MaxAbil == 3         \* items in one generated ability list
MaxDecls == 3  \* declarations in one generated module body
MaxElems == 4        \* items and commas in one generated list
MaxPostfix == 3      \* postfixes after one generated storage location
MaxBody == 4         \* items and commas in one generated struct body
MaxItems == 4        \* declarations, labels and statements in one generated function body
MaxBulletin == 2     \* entries in one generated bulletin
MaxEpoch == 1        \* largest max_epoch of a generated authenticator
MaxSyn == 2          \* synthetics, and spec conditions, in one generated module

(***************************************************************************)
(* Source text: atoms and byte offsets.                                    *)
(***************************************************************************)
RECURSIVE SumLen(_, _)
SumLen(s, n) == IF n = 0 THEN 0 ELSE SumLen(s, n - 1) + Len(s[n])

\* the bytes of the n atoms of text s from atom i on
RECURSIVE BytesOf(_, _, _)
BytesOf(s, i, n) == IF n = 0 THEN 0 ELSE Len(s[i]) + BytesOf(s, i + 1, n - 1)

\* the number of atoms of text s from atom i on that make up len bytes
RECURSIVE AtomsIn(_, _, _)
AtomsIn(s, i, len) == IF len <= 0 THEN 0 ELSE 1 + AtomsIn(s, i + 1, len - Len(s[i]))

RECURSIVE Flatten(_)
Flatten(ss) == IF ss = <<>> THEN <<>> ELSE Head(ss) \o Flatten(Tail(ss))

(***************************************************************************)
(* Results of the parse procedures.                                        *)
(***************************************************************************)
NoVal == [k |-> "none"]
NoErr == [kind |-> "none"]

Ok(L, v) == [st |-> "ok", L |-> L, v |-> v, err |-> NoErr]

\* History: the current token is inspected by the procedure that is running; kept
\* for the procedures that run with spec_mode false, together with the spec_mode
\* under which the token was tokenised.
Inspected(L) ==
    IF L.spec_mode \/ L.nadv = 0 THEN L
    ELSE [L EXCEPT !.seen = @ \cup {[token |-> L.token, at |-> L.cur,
                                     lexed_spec |-> L.lexed_spec]}]

\* History: the errors raised so far, each with the number of lexer calls
\* made when it was raised, are kept in the errs field of the lexer.
Err(L, kind, loc, msg) ==
    LET e == [kind |-> kind, loc |-> loc, msg |-> msg] IN
    [st |-> "err", L |-> [Inspected(L) EXCEPT !.errs = Append(@, [err |-> e, nadv |-> L.nadv])],
     v |-> NoVal, err |-> e]

\* an abort: panic!, a failed assert!, unwrap() of an error value
Panic(L, msg) ==
    [st |-> "panic", L |-> L, v |-> NoVal, err |-> [kind |-> "panic", msg |-> msg]]

IsOk(r) == r.st = "ok"

(***************************************************************************)
(* The lexer (crate::lexer, an external collaborator of the parser).       *)
(* Its state: spec_mode, prev_end, cur_start, cur_end (byte offsets), the *)
(* current token, and cur and nxt, the atoms of the text at which the      *)
(* current token and the rest of the text start.  log, nadv, nrep, rets   *)
(* and errs are history fields: the located nodes built so far, the number *)
(* of advance/replace_token calls made, the number of replace_token calls  *)
(* among them, the spec_mode seen at each return of a procedure that sets  *)
(* spec_mode, the errors raised so far, and the loop iterations completed. *)
(* lexed_spec is the spec_mode under which the current token was           *)
(* tokenised, and seen the tokens inspected with spec_mode false.          *)
(***************************************************************************)
Blank == " "
BadChar == "@"

Punct ==
    {"<", ">", "=", "!", "&", "|", ":", ".", ",", ";", "(", ")", "{", "}",
     "[", "]", "+", "-", "*", "/", "%", "^"}

\* the characters of the numeric literals the inputs use
NumChars(a) ==
    CASE a = "0" -> <<"0">>
      [] a = "1" -> <<"1">>
      [] a = "2" -> <<"2">>
      [] a = "7" -> <<"7">>
      [] a = "255" -> <<"2", "5", "5">>
      [] a = "256" -> <<"2", "5", "6">>
      [] a = "1256" -> <<"1", "2", "5", "6">>
      [] a = "1u8" -> <<"1", "u", "8">>
      [] a = "256u8" -> <<"2", "5", "6", "u", "8">>
      [] a = "1u16" -> <<"1", "u", "1", "6">>
      [] a = "1u32" -> <<"1", "u", "3", "2">>
      [] a = "1u64" -> <<"1", "u", "6", "4">>
      [] a = "1u128" -> <<"1", "u", "1", "2", "8">>
      [] a = "1u256" -> <<"1", "u", "2", "5", "6">>
      [] a = "255u8" -> <<"2", "5", "5", "u", "8">>
      [] a = "255u16" -> <<"2", "5", "5", "u", "1", "6">>
      [] a = "255u32" -> <<"2", "5", "5", "u", "3", "2">>
      [] a = "255u64" -> <<"2", "5", "5", "u", "6", "4">>
      [] a = "255u128" -> <<"2", "5", "5", "u", "1", "2", "8">>
      [] a = "255u256" -> <<"2", "5", "5", "u", "2", "5", "6">>
      [] a = "256u16" -> <<"2", "5", "6", "u", "1", "6">>
      [] a = "256u32" -> <<"2", "5", "6", "u", "3", "2">>
      [] a = "256u64" -> <<"2", "5", "6", "u", "6", "4">>
      [] a = "256u128" -> <<"2", "5", "6", "u", "1", "2", "8">>
      [] a = "256u256" -> <<"2", "5", "6", "u", "2", "5", "6">>
      [] a = "1256u8" -> <<"1", "2", "5", "6", "u", "8">>
      [] a = "1256u16" -> <<"1", "2", "5", "6", "u", "1", "6">>
      [] a = "1256u32" -> <<"1", "2", "5", "6", "u", "3", "2">>
      [] a = "1256u64" -> <<"1", "2", "5", "6", "u", "6", "4">>
      [] a = "1256u128" -> <<"1", "2", "5", "6", "u", "1", "2", "8">>
      [] a = "1256u256" -> <<"1", "2", "5", "6", "u", "2", "5", "6">>
      [] OTHER -> <<>>

IsNumber(a) == NumChars(a) # <<>>

Digits == {"0", "1", "2", "3", "4", "5", "6", "7", "8", "9"}

RECURSIVE DigitPrefix(_)
DigitPrefix(cs) ==
    IF cs = <<>> \/ Head(cs) \notin Digits THEN 0 ELSE 1 + DigitPrefix(Tail(cs))

\* the token kind of a numeric literal follows from its suffix
NumberTok(a) ==
    LET cs == NumChars(a)
        suffix == SubSeq(cs, DigitPrefix(cs) + 1, Len(cs))
    IN CASE suffix = <<"u", "8">> -> "U8Value"
         [] suffix = <<"u", "1", "6">> -> "U16Value"
         [] suffix = <<"u", "3", "2">> -> "U32Value"
         [] suffix = <<"u", "1", "2", "8">> -> "U128Value"
         [] suffix = <<"u", "2", "5", "6">> -> "U256Value"
         [] OTHER -> "U64Value"

AddrOk == {"0x1", "0x2"}
\* a hex literal of 65 digits: longer than the 32 bytes of an address
AddrLong == "0x10000000000000000000000000000000000000000000000000000000000000000"
IsAddress(a) == a \in AddrOk \/ a = AddrLong

IsWord(a) ==
    /\ a \notin Punct
    /\ a # Blank
    /\ a # BadChar
    /\ ~IsNumber(a)
    /\ ~IsAddress(a)

\* the token of a name that is not fused with the punctuation after it
get_name_token(name) ==
    CASE name = "_" -> "Underscore"
      [] name = "abort" -> "Abort"
      [] name = "aborts_if" -> "AbortsIf"
      [] name = "acquires" -> "Acquires"
      [] name = "as" -> "As"
      [] name = "copy" -> "Copy"
      [] name = "ensures" -> "Ensures"
      [] name = "false" -> "False"
      [] name = "freeze" -> "Freeze"
      [] name = "friend" -> "Friend"
      [] name = "global" -> "Global"
      [] name = "global_exists" -> "GlobalExists"
      [] name = "import" -> "Import"
      [] name = "invariant" -> "Invariant"
      [] name = "jump" -> "Jump"
      [] name = "jump_if" -> "JumpIf"
      [] name = "jump_if_false" -> "JumpIfFalse"
      [] name = "label" -> "Label"
      [] name = "let" -> "Let"
      [] name = "main" -> "Main"
      [] name = "module" -> "Module"
      [] name = "native" -> "Native"
      [] name = "old" -> "Old"
      [] name = "public" -> "Public"
      [] name = "requires" -> "Requires"
      [] name = "RET" -> "SpecReturn"
      [] name = "return" -> "Return"
      [] name = "script" -> "Script"
      [] name = "struct" -> "Struct"
      [] name = "succeeds_if" -> "SucceedsIf"
      [] name = "synthetic" -> "Synthetic"
      [] name = "to_u8" -> "ToU8"
      [] name = "to_u64" -> "ToU64"
      [] name = "true" -> "True"
      [] name = "vec_len" -> "VecLen"
      [] OTHER -> "NameValue"

Tk(tok, n) == [ok |-> TRUE, tok |-> tok, n |-> n]

\* a name directly followed by '<': the builtins that open a type list
NameLess(name) ==
    CASE name = "borrow_global" -> Tk("BorrowGlobal", 2)
      [] name = "borrow_global_mut" -> Tk("BorrowGlobalMut", 2)
      [] name = "exists" -> Tk("Exists", 2)
      [] name = "move_from" -> Tk("MoveFrom", 2)
      [] name = "move_to" -> Tk("MoveTo", 2)
      [] name = "main" -> Tk("Main", 1)
      [] name = "vec_len" -> Tk("VecLen", 1)
      [] OTHER -> Tk("NameBeginTyValue", 2)

\* The token that starts at atom i, and the number of atoms it takes.
find_token(s, i, spec_mode) ==
    IF i > Len(s) THEN Tk("EOF", 0)
    ELSE
      LET a == s[i]
          At(n) == IF i + n <= Len(s) THEN s[i + n] ELSE ""
      IN CASE a = BadChar -> [ok |-> FALSE, tok |-> "EOF", n |-> 0]
           [] a = "&" ->
                IF At(1) = "&" THEN Tk("AmpAmp", 2)
                ELSE IF At(1) = "mut" /\ At(2) = Blank THEN Tk("AmpMut", 3)
                ELSE Tk("Amp", 1)
           [] a = "|" -> IF At(1) = "|" THEN Tk("PipePipe", 2) ELSE Tk("Pipe", 1)
           [] a = "=" ->
                IF At(1) = "=" /\ At(2) = ">" THEN Tk("EqualEqualGreater", 3)
                ELSE IF At(1) = "=" THEN Tk("EqualEqual", 2)
                ELSE Tk("Equal", 1)
           [] a = "!" -> IF At(1) = "=" THEN Tk("ExclaimEqual", 2) ELSE Tk("Exclaim", 1)
           [] a = "<" ->
                IF At(1) = "=" THEN Tk("LessEqual", 2)
                ELSE IF At(1) = "<" THEN Tk("LessLess", 2)
                ELSE Tk("Less", 1)
           [] a = ">" ->
                IF At(1) = "=" THEN Tk("GreaterEqual", 2)
                ELSE IF At(1) = ">" THEN Tk("GreaterGreater", 2)
                ELSE Tk("Greater", 1)
           [] a = ":" -> IF At(1) = "=" THEN Tk("ColonEqual", 2) ELSE Tk("Colon", 1)
           [] a = "." -> IF At(1) = "." THEN Tk("PeriodPeriod", 2) ELSE Tk("Period", 1)
           [] a = "," -> Tk("Comma", 1)
           [] a = ";" -> Tk("Semicolon", 1)
           [] a = "(" -> Tk("LParen", 1)
           [] a = ")" -> Tk("RParen", 1)
           [] a = "{" -> Tk("LBrace", 1)
           [] a = "}" -> Tk("RBrace", 1)
           [] a = "[" -> Tk("LSquare", 1)
           [] a = "]" -> Tk("RSquare", 1)
           [] a = "+" -> Tk("Plus", 1)
           [] a = "-" -> Tk("Minus", 1)
           [] a = "*" -> Tk("Star", 1)
           [] a = "/" -> Tk("Slash", 1)
           [] a = "%" -> Tk("Percent", 1)
           [] a = "^" -> Tk("Caret", 1)
           [] IsNumber(a) -> Tk(NumberTok(a), 1)
           [] IsAddress(a) -> Tk("AccountAddressValue", 1)
           [] OTHER ->
                IF spec_mode THEN Tk(get_name_token(a), 1)
                ELSE IF At(1) = "." /\ IsWord(At(2)) /\ At(2) # "" THEN Tk("DotNameValue", 3)
                ELSE IF At(1) = "<" THEN NameLess(a)
                ELSE IF At(1) = "(" /\ a = "assert" THEN Tk("Assert", 2)
                ELSE IF At(1) = "(" /\ a = "copy" THEN Tk("Copy", 2)
                ELSE IF At(1) = "(" /\ a = "move" THEN Tk("Move", 2)
                ELSE Tk(get_name_token(a), 1)

RECURSIVE SkipBlanks(_, _)
SkipBlanks(s, i) ==
    IF i <= Len(s) /\ s[i] = Blank THEN SkipBlanks(s, i + 1) ELSE i

\* Lexer::new
NewLexer(input) ==
    [text |-> input, spec_mode |-> FALSE, prev_end |-> 0, cur_start |-> 0, cur_end |-> 0,
     cur |-> 1, nxt |-> 1, token |-> "EOF", log |-> {}, nadv |-> 0, nrep |-> 0, rets |-> {},
     errs |-> <<>>, iters |-> {}, lexed_spec |-> FALSE, seen |-> {}]

\* a variant with the two offsets exchanged
make_loc_swapped(start, end) == [start |-> end, end |-> start]

\* `start as u32`, `end as u32`: the identity on the offsets of a text shorter
\* than 2^32 bytes, which every text of the model is
make_loc(start, end) == [start |-> start, end |-> end]

peek(L) == L.token
start_loc(L) == L.cur_start
previous_end_loc(L) == L.prev_end

\* Lexer::content: the atoms of the current token
content(L) == SubSeq(L.text, L.cur, L.nxt - 1)

content_len(L) == L.cur_end - L.cur_start

\* Lexer::lookahead: the token after the current one, [ok, tok]
lookahead(L) ==
    LET i == SkipBlanks(L.text, L.nxt)
    IN find_token(L.text, i, L.spec_mode)

\* Lexer::advance
advance(L) ==
    LET i == SkipBlanks(L.text, L.nxt)
        t == find_token(L.text, i, L.spec_mode)
        off == L.cur_end + BytesOf(L.text, L.nxt, i - L.nxt)
        L0 == Inspected(L)
        L1 == [L0 EXCEPT !.prev_end = L.cur_end, !.cur_start = off, !.cur = i,
                         !.nadv = L.nadv + 1, !.lexed_spec = L.spec_mode]
    IN IF ~t.ok
       THEN Err(L1, "InvalidToken", make_loc(off, off + 1), "invalid character")
       ELSE Ok([L1 EXCEPT !.cur_end = off + BytesOf(L.text, i, t.n), !.nxt = i + t.n,
                          !.token = t.tok], NoVal)

\* Lexer::replace_token
replace_token(L, tok, len) ==
    Ok([L EXCEPT !.token = tok, !.cur_end = L.cur_start + len,
                 !.nxt = L.cur + AtomsIn(L.text, L.cur, len),
                 !.nadv = L.nadv + 1, !.nrep = L.nrep + 1], NoVal)

(***************************************************************************)
(* The procedures of the parser call one another by name through Run,      *)
(* which is defined after them.                                            *)
(***************************************************************************)
RECURSIVE Run(_, _, _)

(***************************************************************************)
(* Token utilities.                                                        *)
(***************************************************************************)
current_token_loc(L) == make_loc(start_loc(L), start_loc(L) + content_len(L))

spanned(start, end, value) == [loc |-> make_loc(start, end), value |-> value]

\* History: a located node of kind k was built; first and last are the start
\* offset of the first and the end offset of the last token of its production.
Note(L, k, loc, first, last) ==
    [L EXCEPT !.log = @ \cup {[k |-> k, loc |-> loc, first |-> first, last |-> last]}]

\* History: an iteration of a loop that began with the lexer at L0 goes on
\* to the next one with the lexer at L1; whether a token was consumed.
Iter(loop, L0, L1) ==
    [L1 EXCEPT !.iters = @ \cup {[loop |-> loop, consumed |-> L1.nadv > L0.nadv]}]

\* History: procedure fn returned result r; the lexer's spec_mode at that point.
Returned(r, fn) ==
    [r EXCEPT !.L.rets = @ \cup {[fn |-> fn, st |-> r.st, spec_mode |-> r.L.spec_mode]}]

\* The usual pattern: start_loc before, previous_end_loc after, spanned().
Spanned(L0, r, k) ==
    IF r.st # "ok" THEN r
    ELSE LET s == start_loc(L0)
             e == previous_end_loc(r.L)
         IN Ok(Note(r.L, k, make_loc(s, e), s, e), spanned(s, e, r.v))

match_token(L, tok) ==
    IF peek(L) = tok
    THEN LET r == Run("advance", L, <<>>) IN IF r.st # "ok" THEN r ELSE Ok(r.L, TRUE)
    ELSE Ok(L, FALSE)

consume_token(L, tok) ==
    IF peek(L) # tok
    THEN Err(L, "InvalidToken", current_token_loc(L), <<"expected", tok, "not", peek(L)>>)
    ELSE Run("advance", L, <<>>)

\* a variant that leaves a '>>' as it is
adjust_token_keep(L, list_end_tokens) == Ok(L, NoVal)

adjust_token(L, list_end_tokens) ==
    IF peek(L) = "GreaterGreater" /\ "Greater" \in list_end_tokens
    THEN replace_token(L, "Greater", 1)
    ELSE Ok(L, NoVal)

\* a name is one atom
Symbol(atoms) == atoms[1]

parse_name(L) ==
    IF peek(L) # "NameValue"
    THEN Err(L, "InvalidToken", current_token_loc(L), <<"expected Tok::NameValue">>)
    ELSE LET name == content(L)
             r == Run("advance", L, <<>>)
         IN IF r.st # "ok" THEN r ELSE Ok(r.L, Symbol(name))

parse_name_begin_ty(L) ==
    IF peek(L) # "NameBeginTyValue"
    THEN Err(L, "InvalidToken", current_token_loc(L), <<"expected Tok::NameBeginTyValue">>)
    ELSE LET s == content(L)
             name == SubSeq(s, 1, Len(s) - 1)
             r == Run("advance", L, <<>>)
         IN IF r.st # "ok" THEN r ELSE Ok(r.L, Symbol(name))

parse_dot_name(L) ==
    IF peek(L) # "DotNameValue"
    THEN Err(L, "InvalidToken", current_token_loc(L), <<"expected Tok::DotNameValue">>)
    ELSE LET name == content(L)
             r == Run("advance", L, <<>>)
         IN IF r.st # "ok" THEN r ELSE Ok(r.L, name)

parse_account_address(L) ==
    IF peek(L) # "AccountAddressValue"
    THEN Err(L, "InvalidToken", current_token_loc(L), <<"expected Tok::AccountAddressValue">>)
    ELSE LET a == content(L)[1] IN
         IF a = AddrLong THEN Panic(L, "address of invalid length")
         ELSE LET r == Run("advance", L, <<>>) IN IF r.st # "ok" THEN r ELSE Ok(r.L, a)

parse_var_(L) ==
    LET r == Run("parse_name", L, <<>>) IN IF r.st # "ok" THEN r ELSE Ok(r.L, [k |-> "Var", name |-> r.v])

parse_var(L) == LET r == Run("parse_var_", L, <<>>) IN Spanned(L, r, "Var")

parse_field(L) ==
    LET r == Run("parse_name", L, <<>>)
    IN Spanned(L, IF r.st # "ok" THEN r ELSE Ok(r.L, [k |-> "Field", name |-> r.v]), "Field")

(***************************************************************************)
(* Literals.  A number is kept as its digit characters.                    *)
(***************************************************************************)
EndsWith(cs, suf) ==
    /\ Len(cs) >= Len(suf)
    /\ SubSeq(cs, Len(cs) - Len(suf) + 1, Len(cs)) = suf

RECURSIVE StripZeros(_)
StripZeros(ds) ==
    IF Len(ds) > 1 /\ Head(ds) = "0" THEN StripZeros(Tail(ds)) ELSE ds

DigitVal(d) ==
    CASE d = "0" -> 0 [] d = "1" -> 1 [] d = "2" -> 2 [] d = "3" -> 3 [] d = "4" -> 4
      [] d = "5" -> 5 [] d = "6" -> 6 [] d = "7" -> 7 [] d = "8" -> 8 [] d = "9" -> 9

RECURSIVE DigitsLess(_, _)
DigitsLess(a, b) ==
    IF a = <<>> THEN FALSE
    ELSE IF DigitVal(Head(a)) # DigitVal(Head(b)) THEN DigitVal(Head(a)) < DigitVal(Head(b))
    ELSE DigitsLess(Tail(a), Tail(b))

\* a <= b, for digit strings without leading zeros
DecLe(a, b) ==
    \/ Len(a) < Len(b)
    \/ Len(a) = Len(b) /\ (a = b \/ DigitsLess(a, b))

MaxOf(ty) ==
    CASE ty = "U8" -> <<"2", "5", "5">>
      [] ty = "U16" -> <<"6", "5", "5", "3", "5">>
      [] ty = "U32" -> <<"4", "2", "9", "4", "9", "6", "7", "2", "9", "5">>
      [] ty = "U64" ->
           <<"1", "8", "4", "4", "6", "7", "4", "4", "0", "7", "3", "7", "0", "9", "5",
             "5", "1", "6", "1", "5">>
      [] ty = "U128" ->
           <<"3", "4", "0", "2", "8", "2", "3", "6", "6", "9", "2", "0", "9", "3", "8",
             "4", "6", "3", "4", "6", "3", "3", "7", "4", "6", "0", "7", "4", "3", "1",
             "7", "6", "8", "2", "1", "1", "4", "5", "5">>
      [] ty = "U256" ->
           <<"1", "1", "5", "7", "9", "2", "0", "8", "9", "2", "3", "7", "3", "1", "6",
             "1", "9", "5", "4", "2", "3", "5", "7", "0", "9", "8", "5", "0", "0", "8",
             "6", "8", "7", "9", "0", "7", "8", "5", "3", "2", "6", "9", "9", "8", "4",
             "6", "6", "5", "6", "4", "0", "5", "6", "4", "0", "3", "9", "4", "5", "7",
             "5", "8", "4", "0", "0", "7", "9", "1", "3", "1", "2", "9", "6", "3", "9",
             "9", "3", "5">>

\* <int>::from_str(s): [ok, val]
from_str(ty, cs) ==
    IF cs = <<>> \/ \E i \in 1..Len(cs) : cs[i] \notin Digits
    THEN [ok |-> FALSE, val |-> <<>>]
    ELSE LET ds == StripZeros(cs)
         IN IF DecLe(ds, MaxOf(ty)) THEN [ok |-> TRUE, val |-> ds]
            ELSE [ok |-> FALSE, val |-> <<>>]

\* one integer arm of parse_copyable_val: strip `chop` characters when the
\* content ends with `suf`, convert, unwrap, advance
parse_int_val(L, ty, suf, chop) ==
    LET s == NumChars(content(L)[1]) IN
    IF EndsWith(s, suf) /\ Len(s) < chop THEN Panic(L, "slice index out of range")
    ELSE LET s1 == IF EndsWith(s, suf) THEN SubSeq(s, 1, Len(s) - chop) ELSE s
             i == from_str(ty, s1)
         IN IF ~i.ok THEN Panic(L, "unwrap of a from_str error")
            ELSE LET r == Run("advance", L, <<>>)
                 IN IF r.st # "ok" THEN r ELSE Ok(r.L, [k |-> ty, val |-> i.val])

parse_copyable_val_(L) ==
    LET t == peek(L) IN
    CASE t = "AccountAddressValue" ->
           LET r == Run("parse_account_address", L, <<>>)
           IN IF r.st # "ok" THEN r ELSE Ok(r.L, [k |-> "Address", val |-> r.v])
      [] t = "True" ->
           LET r == Run("advance", L, <<>>) IN IF r.st # "ok" THEN r ELSE Ok(r.L, [k |-> "Bool", val |-> TRUE])
      [] t = "False" ->
           LET r == Run("advance", L, <<>>) IN IF r.st # "ok" THEN r ELSE Ok(r.L, [k |-> "Bool", val |-> FALSE])
      [] t = "U8Value" -> Run("parse_int_val", L, <<"U8", <<"u", "8">>, 2>>)
      [] t = "U16Value" -> Run("parse_int_val", L, <<"U16", <<"u", "1", "6">>, 3>>)
      [] t = "U32Value" -> Run("parse_int_val", L, <<"U32", <<"u", "3", "2">>, 3>>)
      [] t = "U64Value" -> Run("parse_int_val", L, <<"U64", <<"u", "6", "4">>, 3>>)
      [] t = "U128Value" -> Run("parse_int_val", L, <<"U128", <<"u", "1", "2", "8">>, 4>>)
      [] t = "U256Value" -> Run("parse_int_val", L, <<"U256", <<"2", "5", "6">>, 4>>)
      [] OTHER ->
           Err(L, "InvalidToken", current_token_loc(L), <<"unrecognized token kind", t>>)

parse_copyable_val(L) ==
    LET r == Run("parse_copyable_val_", L, <<>>) IN Spanned(L, r, "CopyableVal")

\* Get the precedence of a binary operator; 0 for any other token.
get_precedence(token) ==
    CASE token = "EqualEqualGreater" -> 1
      [] token = "ColonEqual" -> 3
      [] token = "PipePipe" -> 5
      [] token = "AmpAmp" -> 10
      [] token = "EqualEqual" -> 15
      [] token = "ExclaimEqual" -> 15
      [] token = "Less" -> 15
      [] token = "Greater" -> 15
      [] token = "LessEqual" -> 15
      [] token = "GreaterEqual" -> 15
      [] token = "PeriodPeriod" -> 20
      [] token = "Pipe" -> 25
      [] token = "Caret" -> 30
      [] token = "Amp" -> 35
      [] token = "LessLess" -> 40
      [] token = "GreaterGreater" -> 40
      [] token = "Plus" -> 45
      [] token = "Minus" -> 45
      [] token = "Star" -> 50
      [] token = "Slash" -> 50
      [] token = "Percent" -> 50
      [] OTHER -> 0

(***************************************************************************)
(* Lists.  The item parser is named by a tag; parse_item dispatches.       *)
(***************************************************************************)
RECURSIVE parse_item(_, _)

\* a variant of the loop that takes a comma before an end token whatever
\* allow_trailing_comma says
comma_list_loop_lax(L, list_end_tokens, item, allow_trailing_comma, v) ==
    LET r1 == parse_item(item, L) IN
    IF r1.st # "ok" THEN r1 ELSE
    LET v1 == Append(v, r1.v)
        r2 == Run("adjust_token", r1.L, <<list_end_tokens>>)
    IN
    IF peek(r2.L) \in list_end_tokens THEN Ok(r2.L, v1) ELSE
    LET r3 == Run("consume_token", r2.L, <<"Comma">>) IN
    IF r3.st # "ok" THEN r3 ELSE
    LET r4 == Run("adjust_token", r3.L, <<list_end_tokens>>) IN
    IF peek(r4.L) \in list_end_tokens THEN Ok(r4.L, v1)
    ELSE Run("comma_list_loop", r4.L, <<list_end_tokens, item, allow_trailing_comma, v1>>)

\* the loop of parse_comma_list, entered with the list v parsed so far
comma_list_loop(L, list_end_tokens, item, allow_trailing_comma, v) ==
    LET r1 == parse_item(item, L) IN
    IF r1.st # "ok" THEN r1 ELSE
    LET v1 == Append(v, r1.v)
        r2 == Run("adjust_token", r1.L, <<list_end_tokens>>)
    IN
    IF peek(r2.L) \in list_end_tokens THEN Ok(r2.L, v1) ELSE
    LET r3 == Run("consume_token", r2.L, <<"Comma">>) IN
    IF r3.st # "ok" THEN r3 ELSE
    LET r4 == Run("adjust_token", r3.L, <<list_end_tokens>>) IN
    IF peek(r4.L) \in list_end_tokens /\ allow_trailing_comma THEN Ok(r4.L, v1)
    ELSE Run("comma_list_loop", Iter("comma_list_loop", L, r4.L), <<list_end_tokens, item, allow_trailing_comma, v1>>)

parse_comma_list(L, list_end_tokens, item, allow_trailing_comma) ==
    LET r0 == Run("adjust_token", L, <<list_end_tokens>>) IN
    IF peek(r0.L) \in list_end_tokens THEN Ok(r0.L, <<>>)
    ELSE Run("comma_list_loop", r0.L, <<list_end_tokens, item, allow_trailing_comma, <<>>>>)

\* the only parse_list_continue the parser uses: the '+' of a constraint list
continue_on_plus(L) ==
    IF peek(L) = "Plus"
    THEN LET r == Run("advance", L, <<>>) IN IF r.st # "ok" THEN r ELSE Ok(r.L, TRUE)
    ELSE Ok(L, FALSE)

list_loop(L, cont, item, v) ==
    LET r1 == parse_item(item, L) IN
    IF r1.st # "ok" THEN r1 ELSE
    LET v1 == Append(v, r1.v)
        r2 == Run("continue_on_plus", r1.L, <<>>)
    IN
    IF r2.st # "ok" THEN r2
    ELSE IF ~r2.v THEN Ok(r2.L, v1)
    ELSE Run("list_loop", Iter("list_loop", L, r2.L), <<cont, item, v1>>)

parse_list(L, cont, item) == Run("list_loop", L, <<cont, item, <<>>>>)

(***************************************************************************)
(* Types.                                                                  *)
(***************************************************************************)
PrimType(name) ==
    CASE name = "address" -> "Address"
      [] name = "u8" -> "U8"
      [] name = "u16" -> "U16"
      [] name = "u32" -> "U32"
      [] name = "u64" -> "U64"
      [] name = "u128" -> "U128"
      [] name = "u256" -> "U256"
      [] name = "bool" -> "Bool"
      [] name = "signer" -> "Signer"
      [] OTHER -> "none"

parse_qualified_struct_ident(L) ==
    LET r == Run("parse_dot_name", L, <<>>) IN
    IF r.st # "ok" THEN r
    ELSE LET v == SelectSeq(r.v, LAMBDA a : a # ".") IN
         IF Len(v) # 2 THEN Panic(r.L, "assertion failed: v.len() == 2")
         ELSE Ok(r.L, [module |-> v[1], name |-> v[2]])

parse_type_actuals(L) ==
    IF peek(L) = "Less"
    THEN LET r1 == Run("advance", L, <<>>) IN
         IF r1.st # "ok" THEN r1 ELSE
         LET r2 == Run("parse_comma_list", r1.L, <<{"Greater"}, "type", TRUE>>) IN
         IF r2.st # "ok" THEN r2 ELSE
         LET r3 == Run("consume_token", r2.L, <<"Greater">>) IN
         IF r3.st # "ok" THEN r3 ELSE Ok(r3.L, r2.v)
    ELSE Ok(L, <<>>)

parse_type(L) ==
    LET t == peek(L)
        c == content(L)
    IN
    IF t = "NameValue" /\ PrimType(c[1]) # "none"
    THEN LET r == Run("advance", L, <<>>) IN IF r.st # "ok" THEN r ELSE Ok(r.L, [k |-> PrimType(c[1])])
    ELSE IF t = "NameBeginTyValue" /\ c = <<"vector", "<">>
    THEN LET r1 == Run("advance", L, <<>>) IN
         IF r1.st # "ok" THEN r1 ELSE
         LET r2 == Run("parse_type", r1.L, <<>>) IN
         IF r2.st # "ok" THEN r2 ELSE
         LET r3 == Run("adjust_token", r2.L, <<{"Greater"}>>)
             r4 == Run("consume_token", r3.L, <<"Greater">>)
         IN IF r4.st # "ok" THEN r4 ELSE Ok(r4.L, [k |-> "Vector", ty |-> r2.v])
    ELSE IF t = "DotNameValue"
    THEN LET r1 == Run("parse_qualified_struct_ident", L, <<>>) IN
         IF r1.st # "ok" THEN r1 ELSE
         LET r2 == Run("parse_type_actuals", r1.L, <<>>) IN
         IF r2.st # "ok" THEN r2 ELSE Ok(r2.L, [k |-> "Struct", s |-> r1.v, tys |-> r2.v])
    ELSE IF t = "Amp" \/ t = "AmpMut"
    THEN LET r1 == Run("advance", L, <<>>) IN
         IF r1.st # "ok" THEN r1 ELSE
         LET r2 == Run("parse_type", r1.L, <<>>) IN
         IF r2.st # "ok" THEN r2
         ELSE Ok(r2.L, [k |-> "Reference", mutable |-> (t = "AmpMut"), ty |-> r2.v])
    ELSE IF t = "NameValue"
    THEN LET r == Run("parse_name", L, <<>>) IN
         IF r.st # "ok" THEN r ELSE Ok(r.L, [k |-> "TypeParameter", name |-> r.v])
    ELSE Err(L, "InvalidToken", current_token_loc(L), <<"invalid token kind for type", t>>)

parse_name_and_type_actuals(L) ==
    LET has_types == peek(L) = "NameBeginTyValue"
        r1 == IF has_types THEN Run("parse_name_begin_ty", L, <<>>) ELSE Run("parse_name", L, <<>>)
    IN
    IF r1.st # "ok" THEN r1
    ELSE IF has_types
    THEN LET r2 == Run("parse_comma_list", r1.L, <<{"Greater"}, "type", TRUE>>) IN
         IF r2.st # "ok" THEN r2 ELSE
         LET r3 == Run("consume_token", r2.L, <<"Greater">>) IN
         IF r3.st # "ok" THEN r3 ELSE Ok(r3.L, [name |-> r1.v, tys |-> r2.v])
    ELSE Ok(r1.L, [name |-> r1.v, tys |-> <<>>])

\* param_parser is the tag of the item parser
parse_name_and_type_parameters(L, param_parser) ==
    LET has_types == peek(L) = "NameBeginTyValue"
        r1 == IF has_types THEN Run("parse_name_begin_ty", L, <<>>) ELSE Run("parse_name", L, <<>>)
    IN
    IF r1.st # "ok" THEN r1
    ELSE IF has_types
    THEN LET r2 == Run("parse_comma_list", r1.L, <<{"Greater"}, param_parser, TRUE>>) IN
         IF r2.st # "ok" THEN r2 ELSE
         LET r3 == Run("consume_token", r2.L, <<"Greater">>) IN
         IF r3.st # "ok" THEN r3 ELSE Ok(r3.L, [name |-> r1.v, params |-> r2.v])
    ELSE Ok(r1.L, [name |-> r1.v, params |-> <<>>])

(***************************************************************************)
(* Expressions.                                                            *)
(***************************************************************************)
\* the operator match of parse_rhs_of_binary_exp; "none" is its panic! arm
BinOpOf(op_token) ==
    CASE op_token = "EqualEqual" -> "Eq"
      [] op_token = "ExclaimEqual" -> "Neq"
      [] op_token = "Less" -> "Lt"
      [] op_token = "Greater" -> "Gt"
      [] op_token = "LessEqual" -> "Le"
      [] op_token = "GreaterEqual" -> "Ge"
      [] op_token = "PipePipe" -> "Or"
      [] op_token = "AmpAmp" -> "And"
      [] op_token = "Caret" -> "Xor"
      [] op_token = "LessLess" -> "Shl"
      [] op_token = "GreaterGreater" -> "Shr"
      [] op_token = "Pipe" -> "BitOr"
      [] op_token = "Amp" -> "BitAnd"
      [] op_token = "Plus" -> "Add"
      [] op_token = "Minus" -> "Sub"
      [] op_token = "Star" -> "Mul"
      [] op_token = "Slash" -> "Div"
      [] op_token = "Percent" -> "Mod"
      [] OTHER -> "none"

\* History: the first-token offset recorded for the expression node at loc.
FirstOf(L, loc) ==
    LET fs == {n.first : n \in {m \in L.log : m.k = "Exp" /\ m.loc = loc}}
    IN IF fs = {} THEN loc.start ELSE CHOOSE f \in fs : \A g \in fs : f <= g

\* One iteration of the while loop of parse_rhs_of_binary_exp and the rest.
\* a variant that also hands an operator of the same precedence to the
\* recursive call, which nests a chain to the right
binary_exp_loop_right(L, result, next_tok_prec, min_prec) ==
    IF ~(next_tok_prec >= min_prec) THEN Ok(L, result) ELSE
    LET op_token == peek(L)
        r1 == Run("advance", L, <<>>)
    IN
    IF r1.st # "ok" THEN r1 ELSE
    LET r2 == Run("parse_unary_exp", r1.L, <<>>) IN
    IF r2.st # "ok" THEN r2 ELSE
    LET this_prec == next_tok_prec
        p1 == get_precedence(peek(r2.L))
        r3 == IF this_prec <= p1
              THEN Run("parse_rhs_of_binary_exp", r2.L, <<r2.v, this_prec>>)
              ELSE r2
    IN
    IF r3.st # "ok" THEN r3 ELSE
    LET rhs == r3.v
        p2 == get_precedence(peek(r3.L))
        op == BinOpOf(op_token)
    IN
    IF op = "none"
    THEN Panic(r3.L, "Unexpected token that is not a binary operator")
    ELSE
    LET start == result.loc.start
        end == previous_end_loc(r3.L)
        e == [k |-> "BinopExp", lhs |-> result, op |-> op, rhs |-> rhs]
        L4 == Note(r3.L, "Exp", make_loc(start, end), FirstOf(r3.L, result.loc), end)
    IN Run("binary_exp_loop", L4, <<spanned(start, end, e), p2, min_prec>>)

binary_exp_loop(L, result, next_tok_prec, min_prec) ==
    IF ~(next_tok_prec >= min_prec) THEN Ok(L, result) ELSE
    LET op_token == peek(L)
        r1 == Run("advance", L, <<>>)
    IN
    IF r1.st # "ok" THEN r1 ELSE
    LET r2 == Run("parse_unary_exp", r1.L, <<>>) IN
    IF r2.st # "ok" THEN r2 ELSE
    LET this_prec == next_tok_prec
        p1 == get_precedence(peek(r2.L))
        r3 == IF this_prec < p1
              THEN Run("parse_rhs_of_binary_exp", r2.L, <<r2.v, this_prec + 1>>)
              ELSE r2
    IN
    IF r3.st # "ok" THEN r3 ELSE
    LET rhs == r3.v
        p2 == get_precedence(peek(r3.L))
        op == BinOpOf(op_token)
    IN
    IF op = "none"
    THEN Panic(r3.L, "Unexpected token that is not a binary operator")
    ELSE
    LET start == result.loc.start
        end == previous_end_loc(r3.L)
        e == [k |-> "BinopExp", lhs |-> result, op |-> op, rhs |-> rhs]
        L4 == Note(r3.L, "Exp", make_loc(start, end), FirstOf(r3.L, result.loc), end)
    IN Run("binary_exp_loop", Iter("binary_exp_loop", L, L4), <<spanned(start, end, e), p2, min_prec>>)

\* a variant that never climbs: the recursive call hands its operand back
parse_rhs_no_climb(L, lhs, min_prec) ==
    IF min_prec > 1 THEN Ok(L, lhs)
    ELSE Run("binary_exp_loop", L, <<lhs, get_precedence(peek(L)), min_prec>>)

parse_rhs_of_binary_exp(L, lhs, min_prec) ==
    Run("binary_exp_loop", L, <<lhs, get_precedence(peek(L)), min_prec>>)

parse_exp(L) ==
    LET r == Run("parse_unary_exp", L, <<>>) IN
    IF r.st # "ok" THEN r ELSE Run("parse_rhs_of_binary_exp", r.L, <<r.v, 1>>)

BuiltinToks ==
    {"Exists", "BorrowGlobal", "BorrowGlobalMut", "MoveFrom", "MoveTo", "VecLen",
     "Freeze", "ToU8", "ToU64"}

consume_end_of_generics(L) ==
    CASE peek(L) = "Greater" -> Run("advance", L, <<>>)
      [] peek(L) = "GreaterGreater" ->
           LET r == replace_token(L, "Greater", 1) IN Run("advance", r.L, <<>>)
      [] OTHER ->
           Err(L, "InvalidToken", current_token_loc(L),
               <<"expected Tok::Greater or Tok::GreaterGreater">>)

\* the builtins that name a struct: advance, name and type actuals, '>'
parse_struct_builtin(L, k) ==
    LET r1 == Run("advance", L, <<>>) IN
    IF r1.st # "ok" THEN r1 ELSE
    LET r2 == Run("parse_name_and_type_actuals", r1.L, <<>>) IN
    IF r2.st # "ok" THEN r2 ELSE
    LET r3 == Run("consume_end_of_generics", r2.L, <<>>) IN
    IF r3.st # "ok" THEN r3 ELSE Ok(r3.L, [k |-> k, name |-> r2.v.name, tys |-> r2.v.tys])

parse_builtin(L) ==
    LET t == peek(L) IN
    CASE t \in {"Exists", "BorrowGlobal", "BorrowGlobalMut", "MoveFrom", "MoveTo"} ->
           Run("parse_struct_builtin", L, <<t>>)
      [] t = "VecLen" ->
           LET r1 == Run("advance", L, <<>>) IN
           IF r1.st # "ok" THEN r1 ELSE
           LET r2 == Run("parse_type_actuals", r1.L, <<>>) IN
           IF r2.st # "ok" THEN r2 ELSE Ok(r2.L, [k |-> "VecLen", tys |-> r2.v])
      [] t \in {"Freeze", "ToU8", "ToU64"} ->
           LET r1 == Run("advance", L, <<>>) IN IF r1.st # "ok" THEN r1 ELSE Ok(r1.L, [k |-> t])
      [] OTHER ->
           Err(L, "InvalidToken", current_token_loc(L),
               <<"unrecognized token kind for builtin", t>>)

parse_qualified_function_name_(L) ==
    LET t == peek(L) IN
    IF t \in BuiltinToks
    THEN LET r == Run("parse_builtin", L, <<>>) IN
         IF r.st # "ok" THEN r ELSE Ok(r.L, [k |-> "Builtin", f |-> r.v])
    ELSE IF t = "DotNameValue"
    THEN LET r1 == Run("parse_dot_name", L, <<>>) IN
         IF r1.st # "ok" THEN r1 ELSE
         LET r2 == Run("parse_type_actuals", r1.L, <<>>) IN
         IF r2.st # "ok" THEN r2 ELSE
         LET v == SelectSeq(r1.v, LAMBDA a : a # ".") IN
         IF Len(v) # 2 THEN Panic(r2.L, "assertion failed: v.len() == 2")
         ELSE Ok(r2.L, [k |-> "ModuleFunctionCall", module |-> v[1], name |-> v[2],
                        type_actuals |-> r2.v])
    ELSE Err(L, "InvalidToken", current_token_loc(L),
             <<"unrecognized token kind for qualified function name", t>>)

parse_qualified_function_name(L) ==
    LET r == Run("parse_qualified_function_name_", L, <<>>) IN Spanned(L, r, "FunctionCall")

parse_field_ident_(L) ==
    LET r1 == Run("parse_name_and_type_actuals", L, <<>>) IN
    IF r1.st # "ok" THEN r1 ELSE
    LET r2 == Run("consume_token", r1.L, <<"Colon">>) IN
    IF r2.st # "ok" THEN r2 ELSE
    LET r3 == Run("consume_token", r2.L, <<"Colon">>) IN
    IF r3.st # "ok" THEN r3 ELSE
    LET r4 == Run("parse_field", r3.L, <<>>) IN
    IF r4.st # "ok" THEN r4
    ELSE Ok(r4.L, [struct_name |-> r1.v.name, type_actuals |-> r1.v.tys, field |-> r4.v])

parse_field_ident(L) == LET r == Run("parse_field_ident_", L, <<>>) IN Spanned(L, r, "FieldIdent")

parse_field_exp(L) ==
    LET r1 == Run("parse_field", L, <<>>) IN
    IF r1.st # "ok" THEN r1 ELSE
    LET r2 == Run("consume_token", r1.L, <<"Colon">>) IN
    IF r2.st # "ok" THEN r2 ELSE
    LET r3 == Run("parse_exp", r2.L, <<>>) IN
    IF r3.st # "ok" THEN r3 ELSE Ok(r3.L, <<r1.v, r3.v>>)

parse_pack_(L, name, type_actuals) ==
    LET r1 == Run("consume_token", L, <<"LBrace">>) IN
    IF r1.st # "ok" THEN r1 ELSE
    LET r2 == Run("parse_comma_list", r1.L, <<{"RBrace"}, "field_exp", TRUE>>) IN
    IF r2.st # "ok" THEN r2 ELSE
    LET r3 == Run("consume_token", r2.L, <<"RBrace">>) IN
    IF r3.st # "ok" THEN r3
    ELSE Ok(r3.L, [k |-> "Pack", name |-> name, type_actuals |-> type_actuals, fs |-> r2.v])

\* Move / Copy / AmpMut / Amp arms of parse_term_
parse_var_term(L, k, close) ==
    LET r1 == Run("advance", L, <<>>) IN
    IF r1.st # "ok" THEN r1 ELSE
    LET r2 == Run("parse_var", r1.L, <<>>) IN
    IF r2.st # "ok" THEN r2 ELSE
    LET r3 == IF close THEN Run("consume_token", r2.L, <<"RParen">>) ELSE r2 IN
    IF r3.st # "ok" THEN r3 ELSE Ok(r3.L, k @@ [var |-> r2.v])

ValueToks ==
    {"AccountAddressValue", "True", "False", "U8Value", "U16Value", "U32Value",
     "U64Value", "U128Value", "U256Value"}

parse_term_(L) ==
    LET t == peek(L) IN
    CASE t = "Move" -> Run("parse_var_term", L, <<[k |-> "Move"], TRUE>>)
      [] t = "Copy" -> Run("parse_var_term", L, <<[k |-> "Copy"], TRUE>>)
      [] t = "AmpMut" -> Run("parse_var_term", L, <<[k |-> "BorrowLocal", mutable |-> TRUE], FALSE>>)
      [] t = "Amp" -> Run("parse_var_term", L, <<[k |-> "BorrowLocal", mutable |-> FALSE], FALSE>>)
      [] t \in ValueToks ->
           LET r == Run("parse_copyable_val", L, <<>>) IN
           IF r.st # "ok" THEN r ELSE Ok(r.L, [k |-> "Value", val |-> r.v])
      [] t = "NameValue" \/ t = "NameBeginTyValue" ->
           LET r == Run("parse_name_and_type_actuals", L, <<>>) IN
           IF r.st # "ok" THEN r ELSE Run("parse_pack_", r.L, <<r.v.name, r.v.tys>>)
      [] t = "LParen" ->
           LET r1 == Run("advance", L, <<>>) IN
           IF r1.st # "ok" THEN r1 ELSE
           LET r2 == Run("parse_comma_list", r1.L, <<{"RParen"}, "exp", TRUE>>) IN
           IF r2.st # "ok" THEN r2 ELSE
           LET r3 == Run("consume_token", r2.L, <<"RParen">>) IN
           IF r3.st # "ok" THEN r3 ELSE Ok(r3.L, [k |-> "ExprList", exps |-> r2.v])
      [] OTHER ->
           Err(L, "InvalidToken", current_token_loc(L),
               <<"unrecognized token kind for term", t>>)

parse_call_or_term_(L) ==
    IF peek(L) \in BuiltinToks \cup {"DotNameValue"}
    THEN LET r1 == Run("parse_qualified_function_name", L, <<>>) IN
         IF r1.st # "ok" THEN r1 ELSE
         LET r2 == Run("parse_call_or_term", r1.L, <<>>) IN
         IF r2.st # "ok" THEN r2 ELSE Ok(r2.L, [k |-> "FunctionCall", f |-> r1.v, exp |-> r2.v])
    ELSE Run("parse_term_", L, <<>>)

parse_call_or_term(L) == LET r == Run("parse_call_or_term_", L, <<>>) IN Spanned(L, r, "Exp")

parse_call(L) ==
    LET r1 == Run("parse_qualified_function_name", L, <<>>) IN
    IF r1.st # "ok" THEN r1 ELSE
    LET r2 == Run("parse_call_or_term", r1.L, <<>>) IN
    Spanned(L, IF r2.st # "ok" THEN r2
               ELSE Ok(r2.L, [k |-> "FunctionCall", f |-> r1.v, exp |-> r2.v]), "Exp")

\* Lexer::lookahead as a result: the next token, or the lexer's error
lookahead_tok(L) ==
    LET t == Run("lookahead", L, <<>>) IN
    IF t.ok THEN Ok(L, t.tok)
    ELSE Err(L, "InvalidToken", make_loc(L.cur_end, L.cur_end + 1), "invalid character")

parse_borrow_field_(L, mutable) ==
    LET la == IF peek(L) = "NameValue" THEN Run("lookahead_tok", L, <<>>) ELSE Ok(L, "none") IN
    IF la.st # "ok" THEN la
    ELSE IF peek(L) = "NameValue" /\ la.v # "LBrace"
    THEN LET r == Run("parse_var", L, <<>>) IN
         IF r.st # "ok" THEN r
         ELSE Ok(r.L, [k |-> "BorrowLocal", mutable |-> mutable, var |-> r.v])
    ELSE
    LET re == IF peek(L) = "NameValue"
              THEN LET s == start_loc(L)
                       r1 == Run("parse_name", L, <<>>)
                   IN IF r1.st # "ok" THEN r1 ELSE
                      LET e == previous_end_loc(r1.L)
                          r2 == Run("parse_pack_", r1.L, <<r1.v, <<>>>>)
                      IN IF r2.st # "ok" THEN r2
                         ELSE Ok(Note(r2.L, "Exp", make_loc(s, e), s, previous_end_loc(r2.L)),
                                 spanned(s, e, r2.v))
              ELSE Run("parse_unary_exp", L, <<>>)
    IN
    IF re.st # "ok" THEN re ELSE
    LET r3 == Run("consume_token", re.L, <<"Period">>) IN
    IF r3.st # "ok" THEN r3 ELSE
    LET r4 == Run("parse_field_ident", r3.L, <<>>) IN
    IF r4.st # "ok" THEN r4
    ELSE Ok(r4.L, [k |-> "Borrow", is_mutable |-> mutable, exp |-> re.v, field |-> r4.v])

parse_unary_exp_(L) ==
    LET t == peek(L) IN
    CASE t = "Exclaim" ->
           LET r1 == Run("advance", L, <<>>) IN
           IF r1.st # "ok" THEN r1 ELSE
           LET r2 == Run("parse_unary_exp", r1.L, <<>>) IN
           IF r2.st # "ok" THEN r2 ELSE Ok(r2.L, [k |-> "UnaryExp", op |-> "Not", exp |-> r2.v])
      [] t = "Star" ->
           LET r1 == Run("advance", L, <<>>) IN
           IF r1.st # "ok" THEN r1 ELSE
           LET r2 == Run("parse_unary_exp", r1.L, <<>>) IN
           IF r2.st # "ok" THEN r2 ELSE Ok(r2.L, [k |-> "Dereference", exp |-> r2.v])
      [] t = "AmpMut" ->
           LET r1 == Run("advance", L, <<>>) IN
           IF r1.st # "ok" THEN r1 ELSE Run("parse_borrow_field_", r1.L, <<TRUE>>)
      [] t = "Amp" ->
           LET r1 == Run("advance", L, <<>>) IN
           IF r1.st # "ok" THEN r1 ELSE Run("parse_borrow_field_", r1.L, <<FALSE>>)
      [] OTHER -> Run("parse_call_or_term_", L, <<>>)

parse_unary_exp(L) == LET r == Run("parse_unary_exp_", L, <<>>) IN Spanned(L, r, "Exp")

(***************************************************************************)
(* Statements and blocks.                                                  *)
(***************************************************************************)
parse_lvalue_(L) ==
    LET t == peek(L) IN
    CASE t = "NameValue" ->
           LET r == Run("parse_var", L, <<>>) IN
           IF r.st # "ok" THEN r ELSE Ok(r.L, [k |-> "Var", var |-> r.v])
      [] t = "Star" ->
           LET r1 == Run("advance", L, <<>>) IN
           IF r1.st # "ok" THEN r1 ELSE
           LET r2 == Run("parse_exp", r1.L, <<>>) IN
           IF r2.st # "ok" THEN r2 ELSE Ok(r2.L, [k |-> "Mutate", exp |-> r2.v])
      [] t = "Underscore" ->
           LET r1 == Run("advance", L, <<>>) IN IF r1.st # "ok" THEN r1 ELSE Ok(r1.L, [k |-> "Pop"])
      [] OTHER ->
           Err(L, "InvalidToken", current_token_loc(L),
               <<"unrecognized token kind for lvalue", t>>)

parse_lvalue(L) == LET r == Run("parse_lvalue_", L, <<>>) IN Spanned(L, r, "LValue")

parse_field_bindings(L) ==
    LET r1 == Run("parse_field", L, <<>>) IN
    IF r1.st # "ok" THEN r1
    ELSE IF peek(r1.L) = "Colon"
    THEN LET r2 == Run("advance", r1.L, <<>>) IN
         IF r2.st # "ok" THEN r2 ELSE
         LET r3 == Run("parse_var", r2.L, <<>>) IN
         IF r3.st # "ok" THEN r3 ELSE Ok(r3.L, <<r1.v, r3.v>>)
    ELSE Ok(Note(r1.L, "Var", r1.v.loc, start_loc(L), previous_end_loc(r1.L)),
            <<r1.v, [loc |-> r1.v.loc, value |-> [k |-> "Var", name |-> r1.v.value.name]]>>)

parse_assign_(L) ==
    LET r1 == Run("parse_comma_list", L, <<{"Equal"}, "lvalue", FALSE>>) IN
    IF r1.st # "ok" THEN r1
    ELSE IF r1.v = <<>>
    THEN Err(r1.L, "InvalidToken", current_token_loc(r1.L),
             <<"could not parse lvalues in assignment">>)
    ELSE
    LET r2 == Run("consume_token", r1.L, <<"Equal">>) IN
    IF r2.st # "ok" THEN r2 ELSE
    LET r3 == Run("parse_exp", r2.L, <<>>) IN
    IF r3.st # "ok" THEN r3 ELSE Ok(r3.L, [k |-> "Assign", lvalues |-> r1.v, exp |-> r3.v])

parse_unpack_(L, name, type_actuals) ==
    LET r1 == Run("consume_token", L, <<"LBrace">>) IN
    IF r1.st # "ok" THEN r1 ELSE
    LET r2 == Run("parse_comma_list", r1.L, <<{"RBrace"}, "field_bindings", TRUE>>) IN
    IF r2.st # "ok" THEN r2 ELSE
    LET r3 == Run("consume_token", r2.L, <<"RBrace">>) IN
    IF r3.st # "ok" THEN r3 ELSE
    LET r4 == Run("consume_token", r3.L, <<"Equal">>) IN
    IF r4.st # "ok" THEN r4 ELSE
    LET r5 == Run("parse_exp", r4.L, <<>>) IN
    IF r5.st # "ok" THEN r5
    ELSE Ok(r5.L, [k |-> "Unpack", name |-> name, type_actuals |-> type_actuals,
                   bindings |-> r2.v, exp |-> r5.v])

parse_label(L) ==
    LET r == Run("parse_name", L, <<>>)
    IN Spanned(L, IF r.st # "ok" THEN r ELSE Ok(r.L, [k |-> "BlockLabel", name |-> r.v]),
               "BlockLabel")

\* jump_if / jump_if_false: the token, '(' cond ')' label
parse_jump_if(L, tok, k) ==
    LET r1 == Run("consume_token", L, <<tok>>) IN
    IF r1.st # "ok" THEN r1 ELSE
    LET r2 == Run("consume_token", r1.L, <<"LParen">>) IN
    IF r2.st # "ok" THEN r2 ELSE
    LET r3 == Run("parse_exp", r2.L, <<>>) IN
    IF r3.st # "ok" THEN r3 ELSE
    LET r4 == Run("consume_token", r3.L, <<"RParen">>) IN
    IF r4.st # "ok" THEN r4 ELSE
    LET r5 == Run("parse_label", r4.L, <<>>) IN
    IF r5.st # "ok" THEN r5 ELSE Ok(r5.L, [k |-> k, cond |-> r3.v, label |-> r5.v])

\* a variant that keeps the condition as it is written
parse_assert_plain(L) ==
    LET r1 == Run("advance", L, <<>>) IN
    IF r1.st # "ok" THEN r1 ELSE
    LET r2 == Run("parse_exp", r1.L, <<>>) IN
    IF r2.st # "ok" THEN r2 ELSE
    LET r3 == Run("consume_token", r2.L, <<"Comma">>) IN
    IF r3.st # "ok" THEN r3 ELSE
    LET r4 == Run("parse_exp", r3.L, <<>>) IN
    IF r4.st # "ok" THEN r4 ELSE
    LET r5 == Run("consume_token", r4.L, <<"RParen">>) IN
    IF r5.st # "ok" THEN r5 ELSE
    Ok(r5.L, [k |-> "Assert", cond |-> r2.v, err |-> r4.v])

\* the `assert(` arm of parse_statement_
parse_assert_(L) ==
    LET r1 == Run("advance", L, <<>>) IN
    IF r1.st # "ok" THEN r1 ELSE
    LET r2 == Run("parse_exp", r1.L, <<>>) IN
    IF r2.st # "ok" THEN r2 ELSE
    LET r3 == Run("consume_token", r2.L, <<"Comma">>) IN
    IF r3.st # "ok" THEN r3 ELSE
    LET r4 == Run("parse_exp", r3.L, <<>>) IN
    IF r4.st # "ok" THEN r4 ELSE
    LET r5 == Run("consume_token", r4.L, <<"RParen">>) IN
    IF r5.st # "ok" THEN r5 ELSE
    LET e == r2.v
        cond == [loc |-> e.loc, value |-> [k |-> "UnaryExp", op |-> "Not", exp |-> e]]
    IN Ok(Note(r5.L, "Exp", e.loc, FirstOf(r5.L, e.loc), e.loc.end),
          [k |-> "Assert", cond |-> cond, err |-> r4.v])

\* the `return` arm of parse_statement_
parse_return_(L) ==
    LET r1 == Run("advance", L, <<>>) IN
    IF r1.st # "ok" THEN r1 ELSE
    LET start == start_loc(r1.L)
        r2 == Run("parse_comma_list", r1.L, <<{"Semicolon"}, "exp", TRUE>>)
    IN
    IF r2.st # "ok" THEN r2 ELSE
    LET end == start_loc(r2.L)
        L3 == Note(r2.L, "ExprList", make_loc(start, end), start, previous_end_loc(r2.L))
    IN Ok(L3, [k |-> "Return", exps |-> spanned(start, end, [k |-> "ExprList", exps |-> r2.v])])

\* the `(` arm of parse_statement_: a tuple statement
parse_tuple_statement_(L) ==
    LET r1 == Run("advance", L, <<>>) IN
    IF r1.st # "ok" THEN r1 ELSE
    LET start == start_loc(r1.L)
        r2 == Run("parse_comma_list", r1.L, <<{"RParen"}, "exp", TRUE>>)
    IN
    IF r2.st # "ok" THEN r2 ELSE
    LET r3 == Run("consume_token", r2.L, <<"RParen">>) IN
    IF r3.st # "ok" THEN r3 ELSE
    LET end == start_loc(r3.L)
        L4 == Note(r3.L, "ExprList", make_loc(start, end), start_loc(L),
                   previous_end_loc(r3.L))
    IN Ok(L4, [k |-> "Exp", exp |-> spanned(start, end, [k |-> "ExprList", exps |-> r2.v])])

parse_statement_(L) ==
    LET t == peek(L) IN
    CASE t = "Abort" ->
           LET r1 == Run("advance", L, <<>>) IN
           IF r1.st # "ok" THEN r1
           ELSE IF peek(r1.L) = "Semicolon" THEN Ok(r1.L, [k |-> "Abort", val |-> NoVal])
           ELSE LET r2 == Run("parse_exp", r1.L, <<>>) IN
                IF r2.st # "ok" THEN r2 ELSE Ok(r2.L, [k |-> "Abort", val |-> r2.v])
      [] t = "Assert" -> Run("parse_assert_", L, <<>>)
      [] t = "Jump" ->
           LET r1 == Run("consume_token", L, <<"Jump">>) IN
           IF r1.st # "ok" THEN r1 ELSE
           LET r2 == Run("parse_label", r1.L, <<>>) IN
           IF r2.st # "ok" THEN r2 ELSE Ok(r2.L, [k |-> "Jump", label |-> r2.v])
      [] t = "JumpIf" -> Run("parse_jump_if", L, <<"JumpIf", "JumpIf">>)
      [] t = "JumpIfFalse" -> Run("parse_jump_if", L, <<"JumpIfFalse", "JumpIfFalse">>)
      [] t = "NameValue" ->
           LET la == Run("lookahead_tok", L, <<>>) IN
           IF la.st # "ok" THEN la
           ELSE IF la.v = "LBrace"
           THEN LET r1 == Run("parse_name", L, <<>>) IN
                IF r1.st # "ok" THEN r1 ELSE Run("parse_unpack_", r1.L, <<r1.v, <<>>>>)
           ELSE Run("parse_assign_", L, <<>>)
      [] t = "Return" -> Run("parse_return_", L, <<>>)
      [] t = "Star" \/ t = "Underscore" -> Run("parse_assign_", L, <<>>)
      [] t = "NameBeginTyValue" ->
           LET r1 == Run("parse_name_and_type_actuals", L, <<>>) IN
           IF r1.st # "ok" THEN r1 ELSE Run("parse_unpack_", r1.L, <<r1.v.name, r1.v.tys>>)
      [] t \in BuiltinToks \cup {"DotNameValue"} ->
           LET r1 == Run("parse_call", L, <<>>) IN
           IF r1.st # "ok" THEN r1 ELSE Ok(r1.L, [k |-> "Exp", exp |-> r1.v])
      [] t = "LParen" -> Run("parse_tuple_statement_", L, <<>>)
      [] OTHER ->
           Err(L, "InvalidToken", current_token_loc(L),
               <<"invalid token kind for statement", t>>)

parse_statement(L) ==
    LET r == Run("parse_statement_", L, <<>>)
        r1 == Spanned(L, r, "Statement")
    IN
    IF r1.st # "ok" THEN r1 ELSE
    LET r2 == Run("consume_token", r1.L, <<"Semicolon">>) IN
    IF r2.st # "ok" THEN r2 ELSE Ok(r2.L, r1.v)

parse_block_label(L) ==
    LET r1 == Run("consume_token", L, <<"Label">>) IN
    IF r1.st # "ok" THEN r1 ELSE
    LET r2 == Run("parse_label", r1.L, <<>>) IN
    IF r2.st # "ok" THEN r2 ELSE
    LET r3 == Run("consume_token", r2.L, <<"Colon">>) IN
    IF r3.st # "ok" THEN r3 ELSE Ok(r3.L, r2.v)

\* the while loop of parse_block
\* a variant of the loop that puts each statement before the earlier ones
block_statements_reversed(L, statements) ==
    IF peek(L) \in {"Label", "RBrace"} THEN Ok(L, statements)
    ELSE LET r == Run("parse_statement", L, <<>>) IN
         IF r.st # "ok" THEN r ELSE Run("block_statements", r.L, <<<<r.v>> \o statements>>)

block_statements(L, statements) ==
    IF peek(L) \in {"Label", "RBrace"} THEN Ok(L, statements)
    ELSE LET r == Run("parse_statement", L, <<>>) IN
         IF r.st # "ok" THEN r ELSE Run("block_statements", Iter("block_statements", L, r.L), <<Append(statements, r.v)>>)

parse_block(L) ==
    LET r1 == Run("parse_block_label", L, <<>>) IN
    IF r1.st # "ok" THEN r1 ELSE
    LET r2 == Run("block_statements", r1.L, <<<<>>>>) IN
    IF r2.st # "ok" THEN r2
    ELSE Spanned(L, Ok(r2.L, [k |-> "Block", label |-> r1.v, statements |-> r2.v]), "Block")

\* the while loop of parse_blocks
blocks_loop(L, blocks) ==
    IF peek(L) = "RBrace" THEN Ok(L, blocks)
    ELSE LET r == Run("parse_block", L, <<>>) IN
         IF r.st # "ok" THEN r ELSE Run("blocks_loop", Iter("blocks_loop", L, r.L), <<Append(blocks, r.v)>>)

parse_blocks(L) == Run("blocks_loop", L, <<<<>>>>)

parse_declaration(L) ==
    LET r1 == Run("consume_token", L, <<"Let">>) IN
    IF r1.st # "ok" THEN r1 ELSE
    LET r2 == Run("parse_var", r1.L, <<>>) IN
    IF r2.st # "ok" THEN r2 ELSE
    LET r3 == Run("consume_token", r2.L, <<"Colon">>) IN
    IF r3.st # "ok" THEN r3 ELSE
    LET r4 == Run("parse_type", r3.L, <<>>) IN
    IF r4.st # "ok" THEN r4 ELSE
    LET r5 == Run("consume_token", r4.L, <<"Semicolon">>) IN
    IF r5.st # "ok" THEN r5 ELSE Ok(r5.L, <<r2.v, r4.v>>)

\* the while loop of parse_declarations
declarations_loop(L, decls) ==
    IF peek(L) # "Let" THEN Ok(L, decls)
    ELSE LET r == Run("parse_declaration", L, <<>>) IN
         IF r.st # "ok" THEN r ELSE Run("declarations_loop", Iter("declarations_loop", L, r.L), <<Append(decls, r.v)>>)

parse_declarations(L) == Run("declarations_loop", L, <<<<>>>>)

parse_function_block_(L) ==
    LET r1 == Run("consume_token", L, <<"LBrace">>) IN
    IF r1.st # "ok" THEN r1 ELSE
    LET r2 == Run("parse_declarations", r1.L, <<>>) IN
    IF r2.st # "ok" THEN r2 ELSE
    LET r3 == Run("parse_blocks", r2.L, <<>>) IN
    IF r3.st # "ok" THEN r3 ELSE
    LET r4 == Run("consume_token", r3.L, <<"RBrace">>) IN
    IF r4.st # "ok" THEN r4 ELSE Ok(r4.L, [locals |-> r2.v, code |-> r3.v])

(***************************************************************************)
(* Abilities and type parameters.                                          *)
(***************************************************************************)
token_to_ability(token, contents) ==
    CASE token = "Copy" -> "Copy"
      [] token = "NameValue" /\ contents = <<"drop">> -> "Drop"
      [] token = "NameValue" /\ contents = <<"store">> -> "Store"
      [] token = "NameValue" /\ contents = <<"key">> -> "Key"
      [] OTHER -> "none"

\* returns the pair (ability, location of its token)
parse_ability(L) ==
    LET a == token_to_ability(peek(L), content(L)) IN
    IF a = "none"
    THEN Err(L, "InvalidToken", current_token_loc(L), <<"could not parse ability">>)
    ELSE LET loc == current_token_loc(L)
             r == Run("advance", L, <<>>)
         IN IF r.st # "ok" THEN r ELSE Ok(r.L, [ability |-> a, location |-> loc])

\* a variant that drops a repeated ability without an error
insert_abilities_silent(L, abilities, ability_set) ==
    IF abilities = <<>> THEN Ok(L, ability_set)
    ELSE Run("insert_abilities", L,
             <<Tail(abilities), ability_set \cup {Head(abilities).ability}>>)

\* a variant that reports a duplicate at the last item of the list
insert_abilities_at_last(L, abilities, ability_set) ==
    IF abilities = <<>> THEN Ok(L, ability_set)
    ELSE LET a == Head(abilities) IN
         IF a.ability \in ability_set
         THEN Err(L, "User", abilities[Len(abilities)].location, <<"Duplicate ability", a.ability>>)
         ELSE Run("insert_abilities", L, <<Tail(abilities), ability_set \cup {a.ability}>>)

\* the `for (ability, location) in abilities` loop: BTreeSet::insert each one,
\* a User error at the first that was already in the set
insert_abilities(L, abilities, ability_set) ==
    IF abilities = <<>> THEN Ok(L, ability_set)
    ELSE LET a == Head(abilities)
             was_new_element == a.ability \notin ability_set
         IN IF ~was_new_element
            THEN Err(L, "User", a.location, <<"Duplicate ability", a.ability>>)
            ELSE Run("insert_abilities", L, <<Tail(abilities), ability_set \cup {a.ability}>>)

parse_type_var(L) ==
    LET r == Run("parse_name", L, <<>>)
    IN Spanned(L, IF r.st # "ok" THEN r ELSE Ok(r.L, [k |-> "TypeVar", name |-> r.v]), "TypeVar")

parse_type_parameter(L) ==
    LET r1 == Run("parse_type_var", L, <<>>) IN
    IF r1.st # "ok" THEN r1
    ELSE IF peek(r1.L) = "Colon"
    THEN LET r2 == Run("advance", r1.L, <<>>) IN
         IF r2.st # "ok" THEN r2 ELSE
         LET r3 == Run("parse_list", r2.L, <<"plus", "ability">>) IN
         IF r3.st # "ok" THEN r3 ELSE
         LET r4 == Run("insert_abilities", r3.L, <<r3.v, {}>>) IN
         IF r4.st # "ok" THEN r4 ELSE Ok(r4.L, [type_var |-> r1.v, abilities |-> r4.v])
    ELSE Ok(r1.L, [type_var |-> r1.v, abilities |-> {}])

parse_type_parameter_with_phantom_decl(L) ==
    LET is_phantom == peek(L) = "NameValue" /\ content(L) = <<"phantom">>
        r1 == IF is_phantom THEN Run("advance", L, <<>>) ELSE Ok(L, NoVal)
    IN
    IF r1.st # "ok" THEN r1 ELSE
    LET r2 == Run("parse_type_parameter", r1.L, <<>>) IN
    IF r2.st # "ok" THEN r2 ELSE Ok(r2.L, r2.v @@ [is_phantom |-> is_phantom])

parse_arg_decl(L) ==
    LET r1 == Run("parse_var", L, <<>>) IN
    IF r1.st # "ok" THEN r1 ELSE
    LET r2 == Run("consume_token", r1.L, <<"Colon">>) IN
    IF r2.st # "ok" THEN r2 ELSE
    LET r3 == Run("parse_type", r2.L, <<>>) IN
    IF r3.st # "ok" THEN r3 ELSE Ok(r3.L, <<r1.v, r3.v>>)

return_type_loop(L, v) ==
    IF peek(L) # "Star" THEN Ok(L, v)
    ELSE LET r1 == Run("advance", L, <<>>) IN
         IF r1.st # "ok" THEN r1 ELSE
         LET r2 == Run("parse_type", r1.L, <<>>) IN
         IF r2.st # "ok" THEN r2 ELSE Run("return_type_loop", Iter("return_type_loop", L, r2.L), <<Append(v, r2.v)>>)

parse_return_type(L) ==
    LET r1 == Run("consume_token", L, <<"Colon">>) IN
    IF r1.st # "ok" THEN r1 ELSE
    LET r2 == Run("parse_type", r1.L, <<>>) IN
    IF r2.st # "ok" THEN r2 ELSE Run("return_type_loop", r2.L, <<<<r2.v>>>>)

parse_struct_name(L) == Run("parse_name", L, <<>>)

acquire_list_loop(L, al) ==
    IF peek(L) # "Comma" THEN Ok(L, al)
    ELSE LET r1 == Run("advance", L, <<>>) IN
         IF r1.st # "ok" THEN r1 ELSE
         LET r2 == Run("parse_struct_name", r1.L, <<>>) IN
         IF r2.st # "ok" THEN r2 ELSE Run("acquire_list_loop", Iter("acquire_list_loop", L, r2.L), <<Append(al, r2.v)>>)

parse_acquire_list(L) ==
    LET r1 == Run("consume_token", L, <<"Acquires">>) IN
    IF r1.st # "ok" THEN r1 ELSE
    LET r2 == Run("parse_struct_name", r1.L, <<>>) IN
    IF r2.st # "ok" THEN r2 ELSE Run("acquire_list_loop", r2.L, <<<<r2.v>>>>)

(***************************************************************************)
(* The specification sub-language.                                         *)
(***************************************************************************)
spec_parse_dot_name(L) ==
    LET r1 == Run("parse_name", L, <<>>) IN
    IF r1.st # "ok" THEN r1 ELSE
    LET r2 == Run("consume_token", r1.L, <<"Period">>) IN
    IF r2.st # "ok" THEN r2 ELSE
    LET r3 == Run("parse_name", r2.L, <<>>) IN
    IF r3.st # "ok" THEN r3 ELSE Ok(r3.L, <<r1.v, r3.v>>)

spec_parse_qualified_struct_ident(L) ==
    LET r == Run("spec_parse_dot_name", L, <<>>) IN
    IF r.st # "ok" THEN r ELSE Ok(r.L, [module |-> r.v[1], name |-> r.v[2]])

\* `<` qualified struct, type actuals `>` `(` : shared by global and global_exists
parse_global_head(L, tok) ==
    LET r1 == Run("consume_token", L, <<tok>>) IN
    IF r1.st # "ok" THEN r1 ELSE
    LET r2 == Run("consume_token", r1.L, <<"Less">>) IN
    IF r2.st # "ok" THEN r2 ELSE
    LET r3 == Run("spec_parse_qualified_struct_ident", r2.L, <<>>) IN
    IF r3.st # "ok" THEN r3 ELSE
    LET r4 == Run("parse_type_actuals", r3.L, <<>>) IN
    IF r4.st # "ok" THEN r4 ELSE
    LET r5 == Run("consume_token", r4.L, <<"Greater">>) IN
    IF r5.st # "ok" THEN r5 ELSE
    LET r6 == Run("consume_token", r5.L, <<"LParen">>) IN
    IF r6.st # "ok" THEN r6 ELSE
    LET r7 == Run("parse_storage_location", r6.L, <<>>) IN
    IF r7.st # "ok" THEN r7 ELSE
    LET r8 == Run("consume_token", r7.L, <<"RParen">>) IN
    IF r8.st # "ok" THEN r8
    ELSE Ok(r8.L, [type_ |-> r3.v, type_actuals |-> r4.v, address |-> r7.v])

\* the characters u8::from_str reads in `RET(`: the content of the current token
content_chars(L) ==
    LET c == content(L) IN
    IF Len(c) = 1 /\ IsNumber(c[1]) THEN NumChars(c[1])
    ELSE IF c = <<>> THEN <<>>
    ELSE c

\* the Tok::SpecReturn arm of parse_storage_location
parse_spec_return(L) ==
    LET r1 == Run("advance", L, <<>>) IN
    IF r1.st # "ok" THEN r1
    ELSE IF peek(r1.L) = "LParen"
    THEN LET r2 == Run("consume_token", r1.L, <<"LParen">>) IN
         IF r2.st # "ok" THEN r2 ELSE
         LET i == from_str("U8", content_chars(r2.L)) IN
         IF ~i.ok THEN Panic(r2.L, "unwrap of a from_str error") ELSE
         LET r3 == Run("consume_token", r2.L, <<"U64Value">>) IN
         IF r3.st # "ok" THEN r3 ELSE
         LET r4 == Run("consume_token", r3.L, <<"RParen">>) IN
         IF r4.st # "ok" THEN r4 ELSE Ok(r4.L, [k |-> "Ret", i |-> i.val])
    ELSE Ok(r1.L, [k |-> "Ret", i |-> <<"0">>])

parse_storage_base(L) ==
    LET t == peek(L) IN
    CASE t = "SpecReturn" -> Run("parse_spec_return", L, <<>>)
      [] t = "AccountAddressValue" ->
           LET r == Run("parse_account_address", L, <<>>) IN
           IF r.st # "ok" THEN r ELSE Ok(r.L, [k |-> "Address", addr |-> r.v])
      [] t = "Global" ->
           LET r == Run("parse_global_head", L, <<"Global">>) IN
           IF r.st # "ok" THEN r ELSE Ok(r.L, r.v @@ [k |-> "GlobalResource"])
      [] OTHER ->
           LET r == Run("parse_name", L, <<>>) IN
           IF r.st # "ok" THEN r ELSE Ok(r.L, [k |-> "Formal", name |-> r.v])

\* the postfix loop of parse_storage_location
fields_and_indices_loop(L, fields_and_indices) ==
    LET tok == peek(L) IN
    IF tok = "Period"
    THEN LET r1 == Run("advance", L, <<>>) IN
         IF r1.st # "ok" THEN r1 ELSE
         LET r2 == Run("parse_field", r1.L, <<>>) IN
         IF r2.st # "ok" THEN r2
         ELSE Run("fields_and_indices_loop", Iter("fields_and_indices_loop", L, r2.L),
                  <<Append(fields_and_indices, [k |-> "Field", field |-> r2.v.value])>>)
    ELSE IF tok = "LSquare"
    THEN LET r1 == Run("advance", L, <<>>) IN
         IF r1.st # "ok" THEN r1 ELSE
         LET r2 == Run("parse_spec_exp", r1.L, <<>>) IN
         IF r2.st # "ok" THEN r2 ELSE
         LET r3 == Run("consume_token", r2.L, <<"RSquare">>) IN
         IF r3.st # "ok" THEN r3
         ELSE Run("fields_and_indices_loop", Iter("fields_and_indices_loop", L, r3.L),
                  <<Append(fields_and_indices, [k |-> "Index", exp |-> r2.v])>>)
    ELSE Ok(L, fields_and_indices)

\* a variant that wraps every base in an AccessPath, postfixes or not
parse_storage_location_wrap(L) ==
    LET r1 == Run("parse_storage_base", L, <<>>) IN
    IF r1.st # "ok" THEN r1 ELSE
    LET r2 == Run("fields_and_indices_loop", r1.L, <<<<>>>>) IN
    IF r2.st # "ok" THEN r2
    ELSE Ok(r2.L, [k |-> "AccessPath", base |-> r1.v, fields_and_indices |-> r2.v])

parse_storage_location(L) ==
    LET r1 == Run("parse_storage_base", L, <<>>) IN
    IF r1.st # "ok" THEN r1 ELSE
    LET r2 == Run("fields_and_indices_loop", r1.L, <<<<>>>>) IN
    IF r2.st # "ok" THEN r2
    ELSE IF r2.v = <<>> THEN Ok(r2.L, r1.v)
    ELSE Ok(r2.L, [k |-> "AccessPath", base |-> r1.v, fields_and_indices |-> r2.v])

\* the while loop over the arguments of a named call
spec_call_args(L, args) ==
    IF peek(L) = "RParen" THEN Ok(L, args)
    ELSE LET r1 == Run("parse_spec_exp", L, <<>>) IN
         IF r1.st # "ok" THEN r1
         ELSE IF peek(r1.L) # "Comma" THEN Ok(r1.L, Append(args, r1.v))
         ELSE LET r2 == Run("consume_token", r1.L, <<"Comma">>) IN
              IF r2.st # "ok" THEN r2 ELSE Run("spec_call_args", Iter("spec_call_args", L, r2.L), <<Append(args, r1.v)>>)

parse_unary_spec_exp(L) ==
    LET t == peek(L) IN
    CASE t \in ValueToks ->
           LET r == Run("parse_copyable_val", L, <<>>) IN
           IF r.st # "ok" THEN r ELSE Ok(r.L, [k |-> "Constant", val |-> r.v.value])
      [] t = "GlobalExists" ->
           LET r == Run("parse_global_head", L, <<"GlobalExists">>) IN
           IF r.st # "ok" THEN r ELSE Ok(r.L, r.v @@ [k |-> "GlobalExists"])
      [] t = "Star" \/ t = "Amp" ->
           LET r1 == Run("advance", L, <<>>) IN
           IF r1.st # "ok" THEN r1 ELSE
           LET r2 == Run("parse_storage_location", r1.L, <<>>) IN
           IF r2.st # "ok" THEN r2
           ELSE Ok(r2.L, [k |-> IF t = "Star" THEN "Dereference" ELSE "Reference",
                          loc |-> r2.v])
      [] t = "Exclaim" ->
           LET r1 == Run("advance", L, <<>>) IN
           IF r1.st # "ok" THEN r1 ELSE
           LET r2 == Run("parse_unary_spec_exp", r1.L, <<>>) IN
           IF r2.st # "ok" THEN r2 ELSE Ok(r2.L, [k |-> "Not", exp |-> r2.v])
      [] t = "Old" ->
           LET r1 == Run("advance", L, <<>>) IN
           IF r1.st # "ok" THEN r1 ELSE
           LET r2 == Run("consume_token", r1.L, <<"LParen">>) IN
           IF r2.st # "ok" THEN r2 ELSE
           LET r3 == Run("parse_spec_exp", r2.L, <<>>) IN
           IF r3.st # "ok" THEN r3 ELSE
           LET r4 == Run("consume_token", r3.L, <<"RParen">>) IN
           IF r4.st # "ok" THEN r4 ELSE Ok(r4.L, [k |-> "Old", exp |-> r3.v])
      [] t = "NameValue" ->
           LET next == Run("lookahead", L, <<>>) IN
           IF ~next.ok \/ next.tok # "LParen"
           THEN LET r == Run("parse_storage_location", L, <<>>) IN
                IF r.st # "ok" THEN r ELSE Ok(r.L, [k |-> "StorageLocation", loc |-> r.v])
           ELSE LET r1 == Run("parse_name", L, <<>>) IN
                IF r1.st # "ok" THEN r1 ELSE
                LET r2 == Run("consume_token", r1.L, <<"LParen">>) IN
                IF r2.st # "ok" THEN r2 ELSE
                LET r3 == Run("spec_call_args", r2.L, <<<<>>>>) IN
                IF r3.st # "ok" THEN r3 ELSE
                LET r4 == Run("consume_token", r3.L, <<"RParen">>) IN
                IF r4.st # "ok" THEN r4 ELSE Ok(r4.L, [k |-> "Call", name |-> r1.v, args |-> r3.v])
      [] OTHER ->
           LET r == Run("parse_storage_location", L, <<>>) IN
           IF r.st # "ok" THEN r ELSE Ok(r.L, [k |-> "StorageLocation", loc |-> r.v])

\* a variant that takes `+` for `-`
SpecBinOpOf_minus(op_token) ==
    CASE op_token \in {"LessLess", "GreaterGreater"} -> "none"
      [] op_token = "PeriodPeriod" -> "Subrange"
      [] op_token = "Plus" -> "Sub"
      [] OTHER -> BinOpOf(op_token)

\* the operator match of parse_rhs_of_spec_exp; "none" is its panic! arm
SpecBinOpOf(op_token) ==
    CASE op_token \in {"LessLess", "GreaterGreater"} -> "none"
      [] op_token = "PeriodPeriod" -> "Subrange"
      [] OTHER -> BinOpOf(op_token)

\* a variant that reads `==>` as `||`
spec_exp_loop_no_sugar(L, result, next_tok_prec, min_prec) ==
    IF ~(next_tok_prec >= min_prec) THEN Ok(L, result) ELSE
    LET op_token == peek(L)
        r1 == Run("advance", L, <<>>)
    IN
    IF r1.st # "ok" THEN r1 ELSE
    LET r2 == Run("parse_unary_spec_exp", r1.L, <<>>) IN
    IF r2.st # "ok" THEN r2 ELSE
    LET this_prec == next_tok_prec
        p1 == get_precedence(peek(r2.L))
        r3 == IF this_prec < p1
              THEN Run("parse_rhs_of_spec_exp", r2.L, <<r2.v, this_prec + 1>>)
              ELSE r2
    IN
    IF r3.st # "ok" THEN r3 ELSE
    LET rhs == r3.v
        p2 == get_precedence(peek(r3.L))
    IN
    IF op_token = "EqualEqualGreater"
    THEN Run("spec_exp_loop", r3.L, <<[k |-> "Binop", lhs |-> result,
                              op |-> "Or", rhs |-> rhs], p2, min_prec>>)
    ELSE IF op_token = "ColonEqual"
    THEN Run("spec_exp_loop", r3.L, <<[k |-> "Update", lhs |-> result, rhs |-> rhs], p2, min_prec>>)
    ELSE IF SpecBinOpOf(op_token) = "none"
    THEN Panic(r3.L, "Unexpected token that is not a binary operator")
    ELSE Run("spec_exp_loop", r3.L, <<[k |-> "Binop", lhs |-> result, op |-> SpecBinOpOf(op_token),
                              rhs |-> rhs], p2, min_prec>>)

\* One iteration of the while loop of parse_rhs_of_spec_exp and the rest.
spec_exp_loop(L, result, next_tok_prec, min_prec) ==
    IF ~(next_tok_prec >= min_prec) THEN Ok(L, result) ELSE
    LET op_token == peek(L)
        r1 == Run("advance", L, <<>>)
    IN
    IF r1.st # "ok" THEN r1 ELSE
    LET r2 == Run("parse_unary_spec_exp", r1.L, <<>>) IN
    IF r2.st # "ok" THEN r2 ELSE
    LET this_prec == next_tok_prec
        p1 == get_precedence(peek(r2.L))
        r3 == IF this_prec < p1
              THEN Run("parse_rhs_of_spec_exp", r2.L, <<r2.v, this_prec + 1>>)
              ELSE r2
    IN
    IF r3.st # "ok" THEN r3 ELSE
    LET rhs == r3.v
        p2 == get_precedence(peek(r3.L))
    IN
    IF op_token = "EqualEqualGreater"
    THEN Run("spec_exp_loop", Iter("spec_exp_loop", L, r3.L), <<[k |-> "Binop", lhs |-> [k |-> "Not", exp |-> result],
                              op |-> "Or", rhs |-> rhs], p2, min_prec>>)
    ELSE IF op_token = "ColonEqual"
    THEN Run("spec_exp_loop", Iter("spec_exp_loop", L, r3.L), <<[k |-> "Update", lhs |-> result, rhs |-> rhs], p2, min_prec>>)
    ELSE IF SpecBinOpOf(op_token) = "none"
    THEN Panic(r3.L, "Unexpected token that is not a binary operator")
    ELSE Run("spec_exp_loop", Iter("spec_exp_loop", L, r3.L), <<[k |-> "Binop", lhs |-> result, op |-> SpecBinOpOf(op_token),
                              rhs |-> rhs], p2, min_prec>>)

parse_rhs_of_spec_exp(L, lhs, min_prec) ==
    Run("spec_exp_loop", L, <<lhs, get_precedence(peek(L)), min_prec>>)

parse_spec_exp(L) ==
    LET r == Run("parse_unary_spec_exp", L, <<>>) IN
    IF r.st # "ok" THEN r ELSE Run("parse_rhs_of_spec_exp", r.L, <<r.v, 1>>)

SpecDirectives == {"AbortsIf", "Ensures", "Requires", "SucceedsIf"}

\* The `?` inside the match returns before `tokens.spec_mode = false`.
parse_spec_condition(L) ==
    LET L1 == [L EXCEPT !.spec_mode = TRUE]
        t == peek(L1)
        retval ==
          IF t \in SpecDirectives
          THEN LET r1 == Run("advance", L1, <<>>) IN
               IF r1.st # "ok" THEN r1 ELSE
               LET r2 == Run("parse_spec_exp", r1.L, <<>>) IN
               IF r2.st # "ok" THEN r2
               ELSE Ok([r2.L EXCEPT !.spec_mode = FALSE], [k |-> t, exp |-> r2.v])
          ELSE LET L2 == [L1 EXCEPT !.spec_mode = FALSE]
               IN Err(L2, "InvalidToken", current_token_loc(L2),
                      <<"invalid token kind for spec condition", t>>)
    IN Returned(retval, "parse_spec_condition")

parse_invariant_(L) ==
    LET r1 == Run("consume_token", L, <<"Invariant">>) IN
    IF r1.st # "ok" THEN r1 ELSE
    LET has_modifier == peek(r1.L) = "LBrace"
        r2 == IF has_modifier
              THEN LET a1 == Run("advance", r1.L, <<>>) IN
                   IF a1.st # "ok" THEN a1 ELSE
                   LET a2 == Run("parse_name", a1.L, <<>>) IN
                   IF a2.st # "ok" THEN a2 ELSE
                   LET a3 == Run("consume_token", a2.L, <<"RBrace">>) IN
                   IF a3.st # "ok" THEN a3 ELSE Ok(a3.L, [some |-> TRUE, name |-> a2.v])
              ELSE Ok(r1.L, [some |-> FALSE])
    IN
    IF r2.st # "ok" THEN r2 ELSE
    LET la == IF peek(r2.L) = "NameValue" THEN Run("lookahead_tok", r2.L, <<>>) ELSE Ok(r2.L, "none") IN
    IF la.st # "ok" THEN la ELSE
    LET r3 == IF la.v = "Equal"
              THEN LET b1 == Run("parse_name", r2.L, <<>>) IN
                   IF b1.st # "ok" THEN b1 ELSE
                   LET b2 == Run("consume_token", b1.L, <<"Equal">>) IN
                   IF b2.st # "ok" THEN b2 ELSE Ok(b2.L, [some |-> TRUE, name |-> b1.v])
              ELSE Ok(r2.L, [some |-> FALSE])
    IN
    IF r3.st # "ok" THEN r3 ELSE
    LET r4 == Run("parse_spec_exp", r3.L, <<>>) IN
    IF r4.st # "ok" THEN r4
    ELSE Ok(r4.L, [k |-> "Invariant", modifier |-> r2.v, target |-> r3.v, exp |-> r4.v])

\* spec_mode is set, the body parsed, spec_mode cleared, and only then `result?`
\* a variant that skips a token after an error of parse_invariant_
parse_invariant_recover(L) ==
    LET L1 == [L EXCEPT !.spec_mode = TRUE]
        start == start_loc(L1)
        result == Run("parse_invariant_", L1, <<>>)
    IN
    IF result.st = "panic" THEN result ELSE
    LET L2 == [result.L EXCEPT !.spec_mode = FALSE]
        end == previous_end_loc(L2)
    IN Returned(IF result.st # "ok"
                THEN [result EXCEPT !.L = Run("advance", L2, <<>>).L]
                ELSE Ok(Note(L2, "Invariant", make_loc(start, end), start, end),
                        spanned(start, end, result.v)),
                "parse_invariant")

parse_invariant(L) ==
    LET L1 == [L EXCEPT !.spec_mode = TRUE]
        start == start_loc(L1)
        result == Run("parse_invariant_", L1, <<>>)
    IN
    IF result.st = "panic" THEN result ELSE
    LET L2 == [result.L EXCEPT !.spec_mode = FALSE]
        end == previous_end_loc(L2)
    IN Returned(IF result.st # "ok" THEN [result EXCEPT !.L = L2]
                ELSE Ok(Note(L2, "Invariant", make_loc(start, end), start, end),
                        spanned(start, end, result.v)),
                "parse_invariant")

parse_synthetic_(L) ==
    LET r1 == Run("consume_token", L, <<"Synthetic">>) IN
    IF r1.st # "ok" THEN r1 ELSE
    LET r2 == Run("parse_field", r1.L, <<>>) IN
    IF r2.st # "ok" THEN r2 ELSE
    LET r3 == Run("consume_token", r2.L, <<"Colon">>) IN
    IF r3.st # "ok" THEN r3 ELSE
    LET r4 == Run("parse_type", r3.L, <<>>) IN
    IF r4.st # "ok" THEN r4 ELSE
    LET r5 == Run("consume_token", r4.L, <<"Semicolon">>) IN
    IF r5.st # "ok" THEN r5
    ELSE Ok(r5.L, [k |-> "Synthetic", name |-> r2.v.value.name, type_ |-> r4.v])

parse_synthetic(L) ==
    LET L1 == [L EXCEPT !.spec_mode = TRUE]
        start == start_loc(L1)
        result == Run("parse_synthetic_", L1, <<>>)
    IN
    IF result.st = "panic" THEN result ELSE
    LET L2 == [result.L EXCEPT !.spec_mode = FALSE]
        end == previous_end_loc(L2)
    IN Returned(IF result.st # "ok" THEN [result EXCEPT !.L = L2]
                ELSE Ok(Note(L2, "Synthetic", make_loc(start, end), start, end),
                        spanned(start, end, result.v)),
                "parse_synthetic")

(***************************************************************************)
(* Declarations, modules and scripts.                                      *)
(***************************************************************************)
parse_function_visibility(L) ==
    LET r1 == Run("match_token", L, <<"Public">>) IN
    IF r1.st # "ok" THEN r1
    ELSE IF ~r1.v THEN Ok(r1.L, "Internal")
    ELSE
    LET r2 == Run("match_token", r1.L, <<"LParen">>) IN
    IF r2.st # "ok" THEN r2
    ELSE IF ~r2.v THEN Ok(r2.L, "Public")
    ELSE
    LET sub_token == peek(r2.L) IN
    IF sub_token \notin {"Script", "Friend"}
    THEN Err(r2.L, "InvalidToken", current_token_loc(r2.L),
             <<"expected Tok::Script or Tok::Friend, not", sub_token>>)
    ELSE
    LET r3 == Run("advance", r2.L, <<>>) IN
    IF r3.st # "ok" THEN r3 ELSE
    LET r4 == Run("consume_token", r3.L, <<"RParen">>) IN
    IF r4.st # "ok" THEN r4
    ELSE IF sub_token = "Friend" THEN Ok(r4.L, "Friend")
    ELSE Panic(r4.L, "Unexpected token that is not a visibility modifier")

\* the `while tokens.peek().is_spec_directive()` loop of parse_function_decl
specifications_loop(L, specifications) ==
    IF peek(L) \notin SpecDirectives THEN Ok(L, specifications)
    ELSE LET start == start_loc(L)
             r == Run("parse_spec_condition", L, <<>>)
         IN IF r.st # "ok" THEN r ELSE
            LET end == previous_end_loc(r.L)
                L1 == Note(r.L, "Condition", make_loc(start, end), start, end)
            IN Run("specifications_loop", Iter("specifications_loop", L, L1), <<Append(specifications, spanned(start, end, r.v))>>)

parse_function_decl(L) ==
    LET start == start_loc(L)
        is_native == peek(L) = "Native"
        r0 == IF is_native THEN Run("advance", L, <<>>) ELSE Ok(L, NoVal)
    IN
    IF r0.st # "ok" THEN r0 ELSE
    LET r1 == Run("parse_function_visibility", r0.L, <<>>) IN
    IF r1.st # "ok" THEN r1 ELSE
    LET is_entry == peek(r1.L) = "NameValue" /\ content(r1.L) = <<"entry">>
        r2 == IF is_entry THEN Run("advance", r1.L, <<>>) ELSE Ok(r1.L, NoVal)
    IN
    IF r2.st # "ok" THEN r2 ELSE
    LET r3 == Run("parse_name_and_type_parameters", r2.L, <<"type_parameter">>) IN
    IF r3.st # "ok" THEN r3 ELSE
    LET r4 == Run("consume_token", r3.L, <<"LParen">>) IN
    IF r4.st # "ok" THEN r4 ELSE
    LET r5 == Run("parse_comma_list", r4.L, <<{"RParen"}, "arg_decl", TRUE>>) IN
    IF r5.st # "ok" THEN r5 ELSE
    LET r6 == Run("consume_token", r5.L, <<"RParen">>) IN
    IF r6.st # "ok" THEN r6 ELSE
    LET r7 == IF peek(r6.L) = "Colon" THEN Run("parse_return_type", r6.L, <<>>) ELSE Ok(r6.L, <<>>) IN
    IF r7.st # "ok" THEN r7 ELSE
    LET r8 == IF peek(r7.L) = "Acquires" THEN Run("parse_acquire_list", r7.L, <<>>) ELSE Ok(r7.L, <<>>) IN
    IF r8.st # "ok" THEN r8 ELSE
    LET r9 == Run("specifications_loop", r8.L, <<<<>>>>) IN
    IF r9.st # "ok" THEN r9 ELSE
    LET r10 == IF is_native
               THEN LET c == Run("consume_token", r9.L, <<"Semicolon">>) IN
                    IF c.st # "ok" THEN c ELSE Ok(c.L, [k |-> "Native"])
               ELSE LET b == Run("parse_function_block_", r9.L, <<>>) IN
                    IF b.st # "ok" THEN b
                    ELSE Ok(b.L, [k |-> "Move", locals |-> b.v.locals, code |-> b.v.code])
    IN
    IF r10.st # "ok" THEN r10 ELSE
    LET end == previous_end_loc(r10.L)
        func == [visibility |-> r1.v, is_entry |-> is_entry, args |-> r5.v, ret |-> r7.v,
                 type_parameters |-> r3.v.params, acquires |-> r8.v,
                 specifications |-> r9.v, body |-> r10.v]
    IN Ok(Note(r10.L, "Function", make_loc(start, end), start, end),
          [name |-> r3.v.name, func |-> spanned(start, end, func)])

parse_field_decl(L) ==
    LET r1 == Run("parse_field", L, <<>>) IN
    IF r1.st # "ok" THEN r1 ELSE
    LET r2 == Run("consume_token", r1.L, <<"Colon">>) IN
    IF r2.st # "ok" THEN r2 ELSE
    LET r3 == Run("parse_type", r2.L, <<>>) IN
    IF r3.st # "ok" THEN r3 ELSE Ok(r3.L, <<r1.v, r3.v>>)

parse_module_name(L) == Run("parse_name", L, <<>>)

parse_module_ident(L) ==
    LET r1 == Run("parse_account_address", L, <<>>) IN
    IF r1.st # "ok" THEN r1 ELSE
    LET r2 == Run("consume_token", r1.L, <<"Period">>) IN
    IF r2.st # "ok" THEN r2 ELSE
    LET r3 == Run("parse_module_name", r2.L, <<>>) IN
    IF r3.st # "ok" THEN r3 ELSE Ok(r3.L, [name |-> r3.v, address |-> r1.v])

parse_friend_decl(L) ==
    LET r1 == Run("consume_token", L, <<"Friend">>) IN
    IF r1.st # "ok" THEN r1 ELSE
    LET r2 == Run("parse_module_ident", r1.L, <<>>) IN
    IF r2.st # "ok" THEN r2 ELSE
    LET r3 == Run("consume_token", r2.L, <<"Semicolon">>) IN
    IF r3.st # "ok" THEN r3 ELSE Ok(r3.L, r2.v)

parse_import_alias(L) ==
    LET r1 == Run("consume_token", L, <<"As">>) IN
    IF r1.st # "ok" THEN r1 ELSE
    LET r2 == Run("parse_module_name", r1.L, <<>>) IN
    IF r2.st # "ok" THEN r2
    ELSE IF r2.v = "Self" THEN Panic(r2.L, "Invalid use of reserved module alias 'Self'")
    ELSE Ok(r2.L, r2.v)

parse_import_decl(L) ==
    LET r1 == Run("consume_token", L, <<"Import">>) IN
    IF r1.st # "ok" THEN r1 ELSE
    LET r2 == Run("parse_module_ident", r1.L, <<>>) IN
    IF r2.st # "ok" THEN r2 ELSE
    LET r3 == IF peek(r2.L) = "As" THEN Run("parse_import_alias", r2.L, <<>>) ELSE Ok(r2.L, "none") IN
    IF r3.st # "ok" THEN r3 ELSE
    LET r4 == Run("consume_token", r3.L, <<"Semicolon">>) IN
    IF r4.st # "ok" THEN r4 ELSE Ok(r4.L, [ident |-> r2.v, alias |-> r3.v])

\* a variant that puts each import before the ones collected so far
imports_loop_reversed(L, imports) ==
    IF peek(L) # "Import" THEN Ok(L, imports)
    ELSE LET r == Run("parse_import_decl", L, <<>>) IN
         IF r.st # "ok" THEN r ELSE Run("imports_loop", r.L, <<<<r.v>> \o imports>>)

\* `while tokens.peek() == Tok::Import` of parse_script and parse_module
imports_loop(L, imports) ==
    IF peek(L) # "Import" THEN Ok(L, imports)
    ELSE LET r == Run("parse_import_decl", L, <<>>) IN
         IF r.st # "ok" THEN r ELSE Run("imports_loop", Iter("imports_loop", L, r.L), <<Append(imports, r.v)>>)

\* a variant that takes the return types from the arguments and is no entry
script_main_plain(args, type_formals, locals, code) ==
    [visibility |-> "Internal", is_entry |-> FALSE, args |-> args, ret |-> args,
     type_parameters |-> type_formals, acquires |-> <<>>, specifications |-> <<>>,
     body |-> [k |-> "Move", locals |-> locals, code |-> code]]

\* the Function_::new of parse_script
script_main(args, type_formals, locals, code) ==
    [visibility |-> "Public", is_entry |-> TRUE, args |-> args, ret |-> <<>>,
     type_parameters |-> type_formals, acquires |-> <<>>, specifications |-> <<>>,
     body |-> [k |-> "Move", locals |-> locals, code |-> code]]

parse_script(L) ==
    LET script_start == start_loc(L)
        r1 == Run("imports_loop", L, <<<<>>>>)
    IN
    IF r1.st # "ok" THEN r1 ELSE
    LET fun_start == start_loc(r1.L)
        r2 == Run("consume_token", r1.L, <<"Main">>)
    IN
    IF r2.st # "ok" THEN r2 ELSE
    LET r3 == IF peek(r2.L) = "Less"
              THEN LET a1 == Run("consume_token", r2.L, <<"Less">>) IN
                   IF a1.st # "ok" THEN a1 ELSE
                   LET a2 == Run("parse_comma_list", a1.L, <<{"Greater"}, "type_parameter", TRUE>>) IN
                   IF a2.st # "ok" THEN a2 ELSE
                   LET a3 == Run("consume_token", a2.L, <<"Greater">>) IN
                   IF a3.st # "ok" THEN a3 ELSE Ok(a3.L, a2.v)
              ELSE Ok(r2.L, <<>>)
    IN
    IF r3.st # "ok" THEN r3 ELSE
    LET r4 == Run("consume_token", r3.L, <<"LParen">>) IN
    IF r4.st # "ok" THEN r4 ELSE
    LET r5 == Run("parse_comma_list", r4.L, <<{"RParen"}, "arg_decl", TRUE>>) IN
    IF r5.st # "ok" THEN r5 ELSE
    LET r6 == Run("consume_token", r5.L, <<"RParen">>) IN
    IF r6.st # "ok" THEN r6 ELSE
    LET r7 == Run("parse_function_block_", r6.L, <<>>) IN
    IF r7.st # "ok" THEN r7 ELSE
    LET end == previous_end_loc(r7.L)
        main == script_main(r5.v, r3.v, r7.v.locals, r7.v.code)
        L8 == Note(r7.L, "Function", make_loc(fun_start, end), fun_start, end)
        L9 == Note(L8, "Script", make_loc(script_start, end), script_start, end)
    IN Ok(L9, [k |-> "Script", loc |-> make_loc(script_start, end), imports |-> r1.v,
               main |-> spanned(fun_start, end, main)])

\* the `has` clause of parse_struct_decl
parse_struct_abilities(L) ==
    IF peek(L) = "NameValue" /\ content(L) = <<"has">>
    THEN LET r1 == Run("advance", L, <<>>) IN
         IF r1.st # "ok" THEN r1 ELSE
         LET r2 == Run("parse_comma_list", r1.L, <<{"LBrace", "Semicolon"}, "ability", FALSE>>) IN
         IF r2.st # "ok" THEN r2 ELSE Run("insert_abilities", r2.L, <<r2.v, {}>>)
    ELSE Ok(L, {})

\* a variant of the field list that ends at '}' alone
parse_struct_fields_strict(L) ==
    Run("parse_comma_list", L, <<{"RBrace"}, "field_decl", TRUE>>)

\* the field list of parse_struct_decl: it ends at '}' or at `invariant`
parse_struct_fields(L) ==
    Run("parse_comma_list", L, <<{"RBrace", "Invariant"}, "field_decl", TRUE>>)

parse_struct_decl(L) ==
    LET start == start_loc(L)
        is_native == peek(L) = "Native"
        r0 == IF is_native THEN Run("advance", L, <<>>) ELSE Ok(L, NoVal)
    IN
    IF r0.st # "ok" THEN r0 ELSE
    LET r1 == Run("consume_token", r0.L, <<"Struct">>) IN
    IF r1.st # "ok" THEN r1 ELSE
    LET r2 == Run("parse_name_and_type_parameters", r1.L, <<"type_parameter_with_phantom">>) IN
    IF r2.st # "ok" THEN r2 ELSE
    LET r3 == Run("parse_struct_abilities", r2.L, <<>>) IN
    IF r3.st # "ok" THEN r3
    ELSE IF is_native
    THEN LET r4 == Run("consume_token", r3.L, <<"Semicolon">>) IN
         IF r4.st # "ok" THEN r4 ELSE
         LET end == previous_end_loc(r4.L) IN
         Ok(Note(r4.L, "Struct", make_loc(start, end), start, end),
            spanned(start, end, [k |-> "native", abilities |-> r3.v, name |-> r2.v.name,
                                 type_formals |-> r2.v.params]))
    ELSE
    LET r4 == Run("consume_token", r3.L, <<"LBrace">>) IN
    IF r4.st # "ok" THEN r4 ELSE
    LET r5 == Run("parse_struct_fields", r4.L, <<>>) IN
    IF r5.st # "ok" THEN r5 ELSE
    LET r6 == IF peek(r5.L) = "Invariant"
              THEN Run("parse_comma_list", r5.L, <<{"RBrace"}, "invariant", TRUE>>)
              ELSE Ok(r5.L, <<>>)
    IN
    IF r6.st # "ok" THEN r6 ELSE
    LET r7 == Run("consume_token", r6.L, <<"RBrace">>) IN
    IF r7.st # "ok" THEN r7 ELSE
    LET end == previous_end_loc(r7.L) IN
    Ok(Note(r7.L, "Struct", make_loc(start, end), start, end),
       spanned(start, end, [k |-> "move_declared", abilities |-> r3.v, name |-> r2.v.name,
                            type_formals |-> r2.v.params, fields |-> r5.v,
                            invariants |-> r6.v]))

is_struct_decl(L) ==
    LET t == peek(L) IN
    IF t = "Struct" THEN Ok(L, TRUE)
    ELSE IF t # "Native" THEN Ok(L, FALSE)
    ELSE LET la == Run("lookahead_tok", L, <<>>) IN
         IF la.st # "ok" THEN la ELSE Ok(L, la.v = "Struct")

friends_loop(L, friends) ==
    IF peek(L) # "Friend" THEN Ok(L, friends)
    ELSE LET r == Run("parse_friend_decl", L, <<>>) IN
         IF r.st # "ok" THEN r ELSE Run("friends_loop", Iter("friends_loop", L, r.L), <<Append(friends, r.v)>>)

synthetics_loop(L, synthetics) ==
    IF peek(L) # "Synthetic" THEN Ok(L, synthetics)
    ELSE LET r == Run("parse_synthetic", L, <<>>) IN
         IF r.st # "ok" THEN r ELSE Run("synthetics_loop", Iter("synthetics_loop", L, r.L), <<Append(synthetics, r.v)>>)

structs_loop(L, structs) ==
    LET c == Run("is_struct_decl", L, <<>>) IN
    IF c.st # "ok" THEN c
    ELSE IF ~c.v THEN Ok(L, structs)
    ELSE LET r == Run("parse_struct_decl", L, <<>>) IN
         IF r.st # "ok" THEN r ELSE Run("structs_loop", Iter("structs_loop", L, r.L), <<Append(structs, r.v)>>)

functions_loop(L, functions) ==
    IF peek(L) = "RBrace" THEN Ok(L, functions)
    ELSE LET r == Run("parse_function_decl", L, <<>>) IN
         IF r.st # "ok" THEN r ELSE Run("functions_loop", Iter("functions_loop", L, r.L), <<Append(functions, r.v)>>)

parse_module(L) ==
    LET start == start_loc(L)
        r1 == Run("consume_token", L, <<"Module">>)
    IN
    IF r1.st # "ok" THEN r1 ELSE
    LET r2 == Run("parse_module_ident", r1.L, <<>>) IN
    IF r2.st # "ok" THEN r2 ELSE
    LET r3 == Run("consume_token", r2.L, <<"LBrace">>) IN
    IF r3.st # "ok" THEN r3 ELSE
    LET r4 == Run("friends_loop", r3.L, <<<<>>>>) IN
    IF r4.st # "ok" THEN r4 ELSE
    LET r5 == Run("imports_loop", r4.L, <<<<>>>>) IN
    IF r5.st # "ok" THEN r5 ELSE
    LET r6 == Run("synthetics_loop", r5.L, <<<<>>>>) IN
    IF r6.st # "ok" THEN r6 ELSE
    LET r7 == Run("structs_loop", r6.L, <<<<>>>>) IN
    IF r7.st # "ok" THEN r7 ELSE
    LET r8 == Run("functions_loop", r7.L, <<<<>>>>) IN
    IF r8.st # "ok" THEN r8 ELSE
    LET r9 == Run("advance", r8.L, <<>>) IN
    IF r9.st # "ok" THEN r9 ELSE
    LET end == previous_end_loc(r9.L)
        loc == make_loc(start, end)
    IN Ok(Note(r9.L, "Module", loc, start, end),
          [k |-> "Module", loc |-> loc, identifier |-> r2.v, friends |-> r4.v,
           imports |-> r5.v, structs |-> r7.v, functions |-> r8.v, synthetics |-> r6.v])

parse_script_or_module(L) ==
    IF peek(L) = "Module" THEN Run("parse_module", L, <<>>) ELSE Run("parse_script", L, <<>>)

\* a variant that hands the module back without looking at the next token
parse_module_string_no_eof(input) ==
    LET r1 == Run("advance", NewLexer(input), <<>>) IN
    IF r1.st # "ok" THEN r1 ELSE Run("parse_module", r1.L, <<>>)

parse_module_string(input) ==
    LET r1 == Run("advance", NewLexer(input), <<>>) IN
    IF r1.st # "ok" THEN r1 ELSE
    LET unit == Run("parse_module", r1.L, <<>>) IN
    IF unit.st # "ok" THEN unit ELSE
    LET r3 == Run("consume_token", unit.L, <<"EOF">>) IN
    IF r3.st # "ok" THEN r3 ELSE Ok(r3.L, unit.v)

parse_script_string(input) ==
    LET r1 == Run("advance", NewLexer(input), <<>>) IN
    IF r1.st # "ok" THEN r1 ELSE
    LET unit == Run("parse_script", r1.L, <<>>) IN
    IF unit.st # "ok" THEN unit ELSE
    LET r3 == Run("consume_token", unit.L, <<"EOF">>) IN
    IF r3.st # "ok" THEN r3 ELSE Ok(r3.L, unit.v)

parse_script_or_module_string(input) ==
    LET r1 == Run("advance", NewLexer(input), <<>>) IN
    IF r1.st # "ok" THEN r1 ELSE
    LET unit == Run("parse_script_or_module", r1.L, <<>>) IN
    IF unit.st # "ok" THEN unit ELSE
    LET r3 == Run("consume_token", unit.L, <<"EOF">>) IN
    IF r3.st # "ok" THEN r3 ELSE Ok(r3.L, unit.v)

\* the unit an entry point parses, before it looks for the end of file
module_unit(input) ==
    LET r1 == Run("advance", NewLexer(input), <<>>) IN
    IF r1.st # "ok" THEN r1 ELSE Run("parse_module", r1.L, <<>>)

script_unit(input) ==
    LET r1 == Run("advance", NewLexer(input), <<>>) IN
    IF r1.st # "ok" THEN r1 ELSE Run("parse_script", r1.L, <<>>)

script_or_module_unit(input) ==
    LET r1 == Run("advance", NewLexer(input), <<>>) IN
    IF r1.st # "ok" THEN r1 ELSE Run("parse_script_or_module", r1.L, <<>>)

\* the lexer primed on the input, then parse_exp
ExpOf(input) ==
    LET r == Run("advance", NewLexer(input), <<>>) IN IF r.st # "ok" THEN r ELSE Run("parse_exp", r.L, <<>>)

\* the lexer primed on the input, then parse_type
TypeOf(input) ==
    LET r == Run("advance", NewLexer(input), <<>>) IN IF r.st # "ok" THEN r ELSE Run("parse_type", r.L, <<>>)

\* the lexer primed on the input, then parse_function_visibility
VisibilityOf(input) ==
    LET r == Run("advance", NewLexer(input), <<>>) IN
    IF r.st # "ok" THEN r ELSE Run("parse_function_visibility", r.L, <<>>)

\* the lexer primed on the input, then parse_import_decl
ImportOf(input) ==
    LET r == Run("advance", NewLexer(input), <<>>) IN
    IF r.st # "ok" THEN r ELSE Run("parse_import_decl", r.L, <<>>)

\* the lexer primed on the input, then parse_synthetic
SyntheticOf(input) ==
    LET r == Run("advance", NewLexer(input), <<>>) IN
    IF r.st # "ok" THEN r ELSE Run("parse_synthetic", r.L, <<>>)

\* the lexer primed on the input, then parse_statement
StatementOf(input) ==
    LET r == Run("advance", NewLexer(input), <<>>) IN
    IF r.st # "ok" THEN r ELSE Run("parse_statement", r.L, <<>>)

\* the lexer set to spec mode and primed on the input, then parse_spec_exp
SpecExpOf(input) ==
    LET r == Run("advance", [NewLexer(input) EXCEPT !.spec_mode = TRUE], <<>>) IN
    IF r.st # "ok" THEN r ELSE Run("parse_spec_exp", r.L, <<>>)

\* the lexer primed on the input, then parse_comma_list
CommaListOf(input, list_end_tokens, item, allow_trailing_comma) ==
    LET r == Run("advance", NewLexer(input), <<>>) IN
    IF r.st # "ok" THEN r
    ELSE Run("parse_comma_list", r.L, <<list_end_tokens, item, allow_trailing_comma>>)

\* the lexer set to spec mode and primed on the input, then parse_storage_location
StorageLocationOf(input) ==
    LET r == Run("advance", [NewLexer(input) EXCEPT !.spec_mode = TRUE], <<>>) IN
    IF r.st # "ok" THEN r ELSE Run("parse_storage_location", r.L, <<>>)

\* parse_copyable_val on a lexer whose current token has the given kind
\* and the given content
CopyableValOf(input, kind) ==
    LET r == Run("advance", NewLexer(input), <<>>) IN
    IF r.st # "ok" THEN r
    ELSE Run("parse_copyable_val", [r.L EXCEPT !.token = kind], <<>>)

\* A procedure called by its name on x, the lexer (for an entry point the
\* input text), with the further arguments a.
\* Every call of one procedure by another goes through Run.
Run(fn, x, a) ==
    CASE fn = "lookahead" -> lookahead(x)
      [] fn = "advance" -> advance(x)
      [] fn = "match_token" -> match_token(x, a[1])
      [] fn = "consume_token" -> consume_token(x, a[1])
      [] fn = "adjust_token" -> adjust_token(x, a[1])
      [] fn = "parse_name" -> parse_name(x)
      [] fn = "parse_name_begin_ty" -> parse_name_begin_ty(x)
      [] fn = "parse_dot_name" -> parse_dot_name(x)
      [] fn = "parse_account_address" -> parse_account_address(x)
      [] fn = "parse_var_" -> parse_var_(x)
      [] fn = "parse_var" -> parse_var(x)
      [] fn = "parse_field" -> parse_field(x)
      [] fn = "parse_int_val" -> parse_int_val(x, a[1], a[2], a[3])
      [] fn = "parse_copyable_val_" -> parse_copyable_val_(x)
      [] fn = "parse_copyable_val" -> parse_copyable_val(x)
      [] fn = "comma_list_loop" -> comma_list_loop(x, a[1], a[2], a[3], a[4])
      [] fn = "parse_comma_list" -> parse_comma_list(x, a[1], a[2], a[3])
      [] fn = "continue_on_plus" -> continue_on_plus(x)
      [] fn = "list_loop" -> list_loop(x, a[1], a[2], a[3])
      [] fn = "parse_list" -> parse_list(x, a[1], a[2])
      [] fn = "parse_qualified_struct_ident" -> parse_qualified_struct_ident(x)
      [] fn = "parse_type_actuals" -> parse_type_actuals(x)
      [] fn = "parse_type" -> parse_type(x)
      [] fn = "parse_name_and_type_actuals" -> parse_name_and_type_actuals(x)
      [] fn = "parse_name_and_type_parameters" -> parse_name_and_type_parameters(x, a[1])
      [] fn = "binary_exp_loop" -> binary_exp_loop(x, a[1], a[2], a[3])
      [] fn = "parse_rhs_of_binary_exp" -> parse_rhs_of_binary_exp(x, a[1], a[2])
      [] fn = "parse_exp" -> parse_exp(x)
      [] fn = "consume_end_of_generics" -> consume_end_of_generics(x)
      [] fn = "parse_struct_builtin" -> parse_struct_builtin(x, a[1])
      [] fn = "parse_builtin" -> parse_builtin(x)
      [] fn = "parse_qualified_function_name_" -> parse_qualified_function_name_(x)
      [] fn = "parse_qualified_function_name" -> parse_qualified_function_name(x)
      [] fn = "parse_field_ident_" -> parse_field_ident_(x)
      [] fn = "parse_field_ident" -> parse_field_ident(x)
      [] fn = "parse_field_exp" -> parse_field_exp(x)
      [] fn = "parse_pack_" -> parse_pack_(x, a[1], a[2])
      [] fn = "parse_var_term" -> parse_var_term(x, a[1], a[2])
      [] fn = "parse_term_" -> parse_term_(x)
      [] fn = "parse_call_or_term_" -> parse_call_or_term_(x)
      [] fn = "parse_call_or_term" -> parse_call_or_term(x)
      [] fn = "parse_call" -> parse_call(x)
      [] fn = "lookahead_tok" -> lookahead_tok(x)
      [] fn = "parse_borrow_field_" -> parse_borrow_field_(x, a[1])
      [] fn = "parse_unary_exp_" -> parse_unary_exp_(x)
      [] fn = "parse_unary_exp" -> parse_unary_exp(x)
      [] fn = "parse_lvalue_" -> parse_lvalue_(x)
      [] fn = "parse_lvalue" -> parse_lvalue(x)
      [] fn = "parse_field_bindings" -> parse_field_bindings(x)
      [] fn = "parse_assign_" -> parse_assign_(x)
      [] fn = "parse_unpack_" -> parse_unpack_(x, a[1], a[2])
      [] fn = "parse_label" -> parse_label(x)
      [] fn = "parse_jump_if" -> parse_jump_if(x, a[1], a[2])
      [] fn = "parse_assert_" -> parse_assert_(x)
      [] fn = "parse_return_" -> parse_return_(x)
      [] fn = "parse_tuple_statement_" -> parse_tuple_statement_(x)
      [] fn = "parse_statement_" -> parse_statement_(x)
      [] fn = "parse_statement" -> parse_statement(x)
      [] fn = "parse_block_label" -> parse_block_label(x)
      [] fn = "block_statements" -> block_statements(x, a[1])
      [] fn = "parse_block" -> parse_block(x)
      [] fn = "blocks_loop" -> blocks_loop(x, a[1])
      [] fn = "parse_blocks" -> parse_blocks(x)
      [] fn = "parse_declaration" -> parse_declaration(x)
      [] fn = "declarations_loop" -> declarations_loop(x, a[1])
      [] fn = "parse_declarations" -> parse_declarations(x)
      [] fn = "parse_function_block_" -> parse_function_block_(x)
      [] fn = "parse_ability" -> parse_ability(x)
      [] fn = "insert_abilities" -> insert_abilities(x, a[1], a[2])
      [] fn = "parse_type_var" -> parse_type_var(x)
      [] fn = "parse_type_parameter" -> parse_type_parameter(x)
      [] fn = "parse_type_parameter_with_phantom_decl" -> parse_type_parameter_with_phantom_decl(x)
      [] fn = "parse_arg_decl" -> parse_arg_decl(x)
      [] fn = "return_type_loop" -> return_type_loop(x, a[1])
      [] fn = "parse_return_type" -> parse_return_type(x)
      [] fn = "parse_struct_name" -> parse_struct_name(x)
      [] fn = "acquire_list_loop" -> acquire_list_loop(x, a[1])
      [] fn = "parse_acquire_list" -> parse_acquire_list(x)
      [] fn = "spec_parse_dot_name" -> spec_parse_dot_name(x)
      [] fn = "spec_parse_qualified_struct_ident" -> spec_parse_qualified_struct_ident(x)
      [] fn = "parse_global_head" -> parse_global_head(x, a[1])
      [] fn = "parse_spec_return" -> parse_spec_return(x)
      [] fn = "parse_storage_base" -> parse_storage_base(x)
      [] fn = "fields_and_indices_loop" -> fields_and_indices_loop(x, a[1])
      [] fn = "parse_storage_location" -> parse_storage_location(x)
      [] fn = "spec_call_args" -> spec_call_args(x, a[1])
      [] fn = "parse_unary_spec_exp" -> parse_unary_spec_exp(x)
      [] fn = "spec_exp_loop" -> spec_exp_loop(x, a[1], a[2], a[3])
      [] fn = "parse_rhs_of_spec_exp" -> parse_rhs_of_spec_exp(x, a[1], a[2])
      [] fn = "parse_spec_exp" -> parse_spec_exp(x)
      [] fn = "parse_spec_condition" -> parse_spec_condition(x)
      [] fn = "parse_invariant_" -> parse_invariant_(x)
      [] fn = "parse_invariant" -> parse_invariant(x)
      [] fn = "parse_synthetic_" -> parse_synthetic_(x)
      [] fn = "parse_synthetic" -> parse_synthetic(x)
      [] fn = "parse_function_visibility" -> parse_function_visibility(x)
      [] fn = "specifications_loop" -> specifications_loop(x, a[1])
      [] fn = "parse_function_decl" -> parse_function_decl(x)
      [] fn = "parse_field_decl" -> parse_field_decl(x)
      [] fn = "parse_module_name" -> parse_module_name(x)
      [] fn = "parse_module_ident" -> parse_module_ident(x)
      [] fn = "parse_friend_decl" -> parse_friend_decl(x)
      [] fn = "parse_import_alias" -> parse_import_alias(x)
      [] fn = "parse_import_decl" -> parse_import_decl(x)
      [] fn = "imports_loop" -> imports_loop(x, a[1])
      [] fn = "parse_script" -> parse_script(x)
      [] fn = "parse_struct_abilities" -> parse_struct_abilities(x)
      [] fn = "parse_struct_decl" -> parse_struct_decl(x)
      [] fn = "is_struct_decl" -> is_struct_decl(x)
      [] fn = "friends_loop" -> friends_loop(x, a[1])
      [] fn = "synthetics_loop" -> synthetics_loop(x, a[1])
      [] fn = "structs_loop" -> structs_loop(x, a[1])
      [] fn = "functions_loop" -> functions_loop(x, a[1])
      [] fn = "parse_module" -> parse_module(x)
      [] fn = "parse_script_or_module" -> parse_script_or_module(x)
      [] fn = "parse_module_string" -> parse_module_string(x)
      [] fn = "parse_script_string" -> parse_script_string(x)
      [] fn = "parse_script_or_module_string" -> parse_script_or_module_string(x)
      [] fn = "module_unit" -> module_unit(x)
      [] fn = "script_unit" -> script_unit(x)
      [] fn = "script_or_module_unit" -> script_or_module_unit(x)
      [] fn = "ExpOf" -> ExpOf(x)
      [] fn = "TypeOf" -> TypeOf(x)
      [] fn = "VisibilityOf" -> VisibilityOf(x)
      [] fn = "ImportOf" -> ImportOf(x)
      [] fn = "SyntheticOf" -> SyntheticOf(x)
      [] fn = "StatementOf" -> StatementOf(x)
      [] fn = "SpecExpOf" -> SpecExpOf(x)
      [] fn = "CommaListOf" -> CommaListOf(x, a[1], a[2], a[3])
      [] fn = "StorageLocationOf" -> StorageLocationOf(x)
      [] fn = "parse_struct_fields" -> parse_struct_fields(x)
      [] fn = "CopyableValOf" -> CopyableValOf(x, a[1])

\* the item parsers handed to parse_comma_list and parse_list
parse_item(item, L) ==
    CASE item = "type" -> Run("parse_type", L, <<>>)
      [] item = "exp" -> Run("parse_exp", L, <<>>)
      [] item = "field_exp" -> Run("parse_field_exp", L, <<>>)
      [] item = "lvalue" -> Run("parse_lvalue", L, <<>>)
      [] item = "field_bindings" -> Run("parse_field_bindings", L, <<>>)
      [] item = "ability" -> Run("parse_ability", L, <<>>)
      [] item = "type_parameter" -> Run("parse_type_parameter", L, <<>>)
      [] item = "type_parameter_with_phantom" -> Run("parse_type_parameter_with_phantom_decl", L, <<>>)
      [] item = "arg_decl" -> Run("parse_arg_decl", L, <<>>)
      [] item = "field_decl" -> Run("parse_field_decl", L, <<>>)
      [] item = "invariant" -> Run("parse_invariant", L, <<>>)

(***************************************************************************)
(* Inputs: programs put together from fragments.  A program varies one     *)
(* fragment (a declaration, a function, or a statement) of a base program, *)
(* and is followed by a tail.                                              *)
(***************************************************************************)
NoRes == [st |-> "none"]

\* statements of a function body (without the closing ';')
Stmts ==
    << <<"return">>,
       <<"return", " ", "1", ",", "2">>,
       <<"return", " ", "1", ",">>,
       <<"(", "1", ")">>,
       <<"(", "1", ",", "2", ")">>,
       <<"(", ")">>,
       <<"x", "=", "1", "+", "2", "*", "7">>,
       <<"x", "=", "1", ".", ".", "2">>,
       <<"x", "=", "copy", "(", "y", ")">>,
       <<"abort">>,
       <<"abort", " ", "1">>,
       <<"assert", "(", "true", ",", "7", ")">>,
       <<"jump", " ", "b0">>,
       <<"jump_if", "(", "true", ")", "b0">>,
       <<"x", "=", "&", "S", "{", "f", ":", "1", "}", ".", "S", ":", ":", "f">>,
       <<"T", ".", "f", "(", "1", ")">>,
       <<"x", "=", "256u8">>,
       <<"x", "=", "0x1">>,
       <<"S", "{", "f", ":", "x", "}", "=", "move", "(", "y", ")">>,
       <<"*", "copy", "(", "x", ")", "=", "1">>,
       <<"_", "=", "1">>,
       <<"x", "=", "@">>,
       <<"x", ",", "y", "=", "(", "1", ",", "2", ")">>,
       <<"x", "=", "!", "true">>,
       <<"x", "=", "&", "mut", " ", "y">>,
       <<"x", "=", "exists", "<", "S", ">", "(", "0x1", ")">>,
       <<"x", "=", "vec_len", "<", "u8", ">", "(", "copy", "(", "v", ")", ")">>,
       <<"x", "=", "1", "=", "=", ">", "2">>,
       <<"x", "=", "1", ":", "=", "2">>,
       <<"x", "=", "S", "<", "vector", "<", "vector", "<", "u8", ">", ">", ">",
         "{", "f", ":", "1", "}">>,
       <<"x", "=", AddrLong>>,
       <<"x", "=", "1", ">", ">", "2">>,
       <<"x", "=", "(", "1", "+", "2", ")", "*", "7">>,
       <<"x">>,
       <<"x", "=", "1u256">> >>

\* declarations of a module, before its functions
Decls ==
    << <<>>,
       <<"friend", " ", "0x2", ".", "N", ";">>,
       <<"import", " ", "0x2", ".", "N", ";">>,
       <<"import", " ", "0x2", ".", "N", " ", "as", " ", "K", ";">>,
       <<"import", " ", "0x2", ".", "N", " ", "as", " ", "Self", ";">>,
       <<"synthetic", " ", "s", ":", "u8", ";">>,
       <<"struct", " ", "S", "{", "f", ":", "u8", "}">>,
       <<"struct", " ", "S", " ", "has", " ", "copy", ",", "drop", "{", "f", ":", "u8", ",", "}">>,
       <<"native", " ", "struct", " ", "S", ";">>,
       <<"struct", " ", "S", "<", "phantom", " ", "T", ":", "copy", "+", "drop", ">",
         "{", "f", ":", "T", "}">>,
       <<"struct", " ", "S", "{", "f", ":", "u8", ",", "invariant", " ", "f", ">", "0", ",", "}">>,
       <<"struct", " ", "S", " ", "has", " ", "copy", ",", "copy", "{", "f", ":", "u8", "}">>,
       <<"struct", " ", "S", " ", "has", " ", "copy", ",", "copy", ",", "foo", "{", "}">>,
       <<"import", " ", "0x2", ".", "N", ";", "friend", " ", "0x2", ".", "N", ";">>,
       <<"struct", " ", "S", " ", "has", "{", "f", ":", "u8", "}">>,
       <<"struct", " ", "S", "{", "invariant", " ", "@", "}">>,
       <<"synthetic", " ", "s", ":", "@", ";">> >>

Body == <<"{", "label", " ", "b0", ":", "return", ";", "}">>

\* functions of a module; the first one is the base function around stmt
Funs(stmt) ==
    << <<"f", "(", ")", "{", "label", " ", "b0", ":">> \o stmt \o <<";", "}">>,
       <<"public", " ", "f", "(", "x", ":", "u8", ")", ":", "u8">> \o Body,
       <<"public", "(", "friend", ")", "f", "(", ")">> \o Body,
       <<"public", "(", "script", ")", "f", "(", ")">> \o Body,
       <<"native", " ", "f", "(", ")", ";">>,
       <<"entry", " ", "f", "(", ")">> \o Body,
       <<"f", "<", "T", ":", "copy", "+", "drop", ">", "(", "x", ":", "T", ")", ":", "T", "*",
         "u8", " ", "acquires", " ", "S", ",", "R">> \o Body,
       <<"f", "(", ")", "ensures", " ", "RET", "=", "=", "1">> \o Body,
       <<"f", "(", ")", "ensures", " ", "RET", "(", "1", ")", "=", "=", "1">> \o Body,
       <<"f", "(", ")", "ensures", " ", "RET", "(", "x", ")">> \o Body,
       <<"f", "(", "x", ":", "u8", ")", "requires", " ", "x", ".", "f", "[", "0", "]", ">", "1">>
         \o Body,
       <<"f", "(", ")", "aborts_if", " ", "global_exists", "<", "M", ".", "S", ">",
         "(", "0x1", ")">> \o Body,
       <<"f", "(", ")", "ensures", " ", "a", "=", "=", ">", "b">> \o Body,
       <<"f", "(", ")", "ensures", " ", "@">> \o Body,
       <<"f", "(", ")", "ensures", " ", ";">> \o Body,
       <<"f", "(", ")", "succeeds_if", " ", "x", "<", "<", "1">> \o Body,
       <<"f", "<", "T", ":", "copy", "+", "copy", ">", "(", ")">> \o Body,
       <<"f", "(", ")", "foo">> \o Body,
       <<"f", "(", ")", "ensures", " ", "x", " ", "requires", " ", "y">> \o Body,
       <<"f", "(", ")", "ensures", " ", "x", ".", "f", ":", "=", "1">> \o Body >>

\* what follows the unit in the input
Tails == << <<>>, <<" ">>, <<"}">>, <<" ", "x">>, <<"@">> >>

\* declarations of a script, before main
ScriptDecls ==
    << <<>>,
       <<"import", " ", "0x2", ".", "N", ";">>,
       <<"import", " ", "0x2", ".", "N", " ", "as", " ", "Self", ";">> >>

\* main of a script; the first one is the base around stmt
Mains(stmt) ==
    << <<"main", "(", ")", "{", "label", " ", "b0", ":">> \o stmt \o <<";", "}">>,
       <<"main", "<", "T", ":", "copy", ">", "(", "x", ":", "T", ")">> \o Body,
       <<"main", "(", ")", "{", "let", " ", "x", ":", "u8", ";", "label", " ", "b0", ":">>
         \o stmt \o <<";", "}">>,
       <<"main", "(", ")", ":", "u8">> \o Body,
       <<"main", "(", ")", "acquires", " ", "S">> \o Body,
       <<"main", "(", ")", "ensures", " ", "true">> \o Body,
       <<"public", " ", "main", "(", ")">> \o Body,
       <<"native", " ", "main", "(", ")", ";">> >>

\* one fragment varies: the others are the base (index 1)
OneVaries(nd, nf, ns) ==
    {<<d, 1, 1>> : d \in 1..nd} \cup {<<1, f, 1>> : f \in 1..nf}
      \cup {<<1, 1, s>> : s \in 1..ns}

Programs ==
    {[unit |-> "module", decl |-> v[1], fun |-> v[2], stmt |-> v[3], tail |-> t] :
        v \in OneVaries(Len(Decls), Len(Funs(<<>>)), Len(Stmts)), t \in 1..Len(Tails)}
      \cup
    {[unit |-> "script", decl |-> v[1], fun |-> v[2], stmt |-> v[3], tail |-> t] :
        v \in OneVaries(Len(ScriptDecls), Len(Mains(<<>>)), Len(Stmts)), t \in 1..Len(Tails)}

ProgramText(g) ==
    IF g.unit = "module"
    THEN <<"module", " ", "0x1", ".", "M", "{">> \o Decls[g.decl]
           \o Funs(Stmts[g.stmt])[g.fun] \o <<"}">> \o Tails[g.tail]
    ELSE ScriptDecls[g.decl] \o Mains(Stmts[g.stmt])[g.fun] \o Tails[g.tail]

(***************************************************************************)
(* The entry points applied to a program.                                  *)
(***************************************************************************)
Init ==
    /\ gen \in Programs
    /\ text = ProgramText(gen)
    /\ pc = "input"
    /\ call = "none"
    /\ res = NoRes

ParseModuleString ==
    /\ pc = "input"
    /\ pc' = "done"
    /\ call' = "parse_module_string"
    /\ res' = Run("parse_module_string", text, <<>>)
    /\ UNCHANGED <<text, gen>>

ParseScriptString ==
    /\ pc = "input"
    /\ pc' = "done"
    /\ call' = "parse_script_string"
    /\ res' = Run("parse_script_string", text, <<>>)
    /\ UNCHANGED <<text, gen>>

ParseScriptOrModuleString ==
    /\ pc = "input"
    /\ pc' = "done"
    /\ call' = "parse_script_or_module_string"
    /\ res' = Run("parse_script_or_module_string", text, <<>>)
    /\ UNCHANGED <<text, gen>>

Next ==
    \/ ParseModuleString
    \/ ParseScriptString
    \/ ParseScriptOrModuleString

Spec == Init /\ [][Next]_vars

(***************************************************************************)
(* parse_exp applied to chains of binary operators.                        *)
(***************************************************************************)
\* the binary operators of the ordinary grammar, as written
OpAtoms ==
    << <<"|", "|">>, <<"&", "&">>, <<"=", "=">>, <<"!", "=">>, <<"<">>, <<">">>,
       <<"<", "=">>, <<">", "=">>, <<"|">>, <<"^">>, <<"&">>, <<"<", "<">>, <<">", ">">>,
       <<"+">>, <<"-">>, <<"*">>, <<"/">>, <<"%">> >>

\* the token of each, in the same order
OpToks ==
    <<"PipePipe", "AmpAmp", "EqualEqual", "ExclaimEqual", "Less", "Greater",
      "LessEqual", "GreaterEqual", "Pipe", "Caret", "Amp", "LessLess", "GreaterGreater",
      "Plus", "Minus", "Star", "Slash", "Percent">>

\* unary operands: the i-th operand of a chain is Operand(kind, i)
OperandKinds == 1..3
Operand(kind, i) ==
    LET n == <<"1", "2", "7", "255", "0">>[i] IN
    CASE kind = 1 -> <<n>>
      [] kind = 2 -> <<"copy", "(", "x", ")">>
      [] OTHER -> <<"!", "(", n, ")">>

OpSeqs(n) == UNION {[1..m -> 1..Len(OpAtoms)] : m \in 1..n}

\* the operator written between blanks or not
OpText(o, sp) == IF sp THEN <<" ">> \o OpAtoms[o] \o <<" ">> ELSE OpAtoms[o]

RECURSIVE ChainText(_, _, _, _)
\* operand 1, op 1, operand 2, ... up to operand n + 1 of the chain ops[1..n]
ChainText(ops, kind, sp, n) ==
    IF n = 0 THEN Operand(kind, 1)
    ELSE ChainText(ops, kind, sp, n - 1) \o OpText(ops[n], sp) \o Operand(kind, n + 1)

Chains ==
    {[ops |-> ops, kind |-> k, sp |-> sp] :
        ops \in OpSeqs(2), k \in OperandKinds, sp \in BOOLEAN}
      \cup
    {[ops |-> ops, kind |-> 1, sp |-> FALSE] : ops \in OpSeqs(MaxOps)}

\* the lexer primed on the input, then parse_exp
InitExp ==
    /\ gen \in Chains
    /\ text = ChainText(gen.ops, gen.kind, gen.sp, Len(gen.ops)) \o <<";">>
    /\ pc = "input"
    /\ call = "none"
    /\ res = NoRes

ParseExp ==
    /\ pc = "input"
    /\ pc' = "done"
    /\ call' = "parse_exp"
    /\ res' = Run("ExpOf", text, <<>>)
    /\ UNCHANGED <<text, gen>>

NextExp == ParseExp

SpecExp == InitExp /\ [][NextExp]_vars

\* the span of the i-th operand of the chain in the text
OperandLoc(g, i) ==
    LET before == IF i = 1 THEN <<>>
                  ELSE ChainText(g.ops, g.kind, g.sp, i - 2) \o OpText(g.ops[i - 1], g.sp)
        s == SumLen(before, Len(before))
        o == Operand(g.kind, i)
    IN <<s, s + SumLen(o, Len(o))>>

RECURSIVE Shape(_)
\* the tree of an expression: operators and the spans of the operands
Shape(e) ==
    IF e.value.k = "BinopExp"
    THEN <<Shape(e.value.lhs), e.value.op, Shape(e.value.rhs)>>
    ELSE <<e.loc.start, e.loc.end>>

RECURSIVE LeftNested(_, _)
\* (((a1 op1 a2) op2 a3) ... opn an+1)
LeftNested(g, n) ==
    IF n = 0 THEN OperandLoc(g, 1)
    ELSE <<LeftNested(g, n - 1), BinOpOf(OpToks[g.ops[n]]), OperandLoc(g, n + 1)>>

Prec(o) == get_precedence(OpToks[o])

(***************************************************************************)
(* parse_type applied to nested vector types.                              *)
(***************************************************************************)
\* the element type of the innermost vector, as written and as parsed
ElemAtoms == << <<"u8">>, <<"u64">>, <<"bool">>, <<"T">>, <<"M", ".", "S">> >>
ElemTypes ==
    << [k |-> "U8"], [k |-> "U64"], [k |-> "Bool"], [k |-> "TypeParameter", name |-> "T"],
       [k |-> "Struct", s |-> [module |-> "M", name |-> "S"], tys |-> <<>>] >>

\* what the grammar lets follow a type, and the token it is
Followers ==
    << <<";">>, <<",">>, <<")">>, <<"{">>, <<"*">>, <<" ", "acquires">>, <<>>, <<" ", ";">> >>
FollowerToks ==
    <<"Semicolon", "Comma", "RParen", "LBrace", "Star", "Acquires", "EOF", "Semicolon">>

RECURSIVE Rep(_, _)
Rep(atoms, n) == IF n = 0 THEN <<>> ELSE atoms \o Rep(atoms, n - 1)

\* vector< ... vector<elem>> ... > with all closers adjacent
VectorText(n, elem) == Rep(<<"vector", "<">>, n) \o ElemAtoms[elem] \o Rep(<<">">>, n)

RECURSIVE NVector(_, _)
NVector(n, ty) == IF n = 0 THEN ty ELSE [k |-> "Vector", ty |-> NVector(n - 1, ty)]

Nestings ==
    {[depth |-> n, elem |-> e, follow |-> f, wrap |-> w] :
        n \in 1..MaxDepth, e \in 1..Len(ElemAtoms), f \in 1..Len(Followers), w \in BOOLEAN}

\* the type alone, or as the type actual of a struct type M.S<...>
TypeText(g) ==
    IF g.wrap THEN <<"M", ".", "S", "<">> \o VectorText(g.depth, g.elem) \o <<">">>
    ELSE VectorText(g.depth, g.elem)

InitType ==
    /\ gen \in Nestings
    /\ text = TypeText(gen) \o Followers[gen.follow]
    /\ pc = "input"
    /\ call = "none"
    /\ res = NoRes

ParseType ==
    /\ pc = "input"
    /\ pc' = "done"
    /\ call' = "parse_type"
    /\ res' = Run("TypeOf", text, <<>>)
    /\ UNCHANGED <<text, gen>>

NextType == ParseType

SpecType == InitType /\ [][NextType]_vars

\* the type the text of g denotes
ExpectedType(g) ==
    LET v == NVector(g.depth, ElemTypes[g.elem]) IN
    IF g.wrap THEN [k |-> "Struct", s |-> [module |-> "M", name |-> "S"], tys |-> <<v>>]
    ELSE v

(***************************************************************************)
(* parse_module_string applied to a module with one ability list.          *)
(***************************************************************************)
\* what an item of the list is written as; the last one is no ability
AbilityAtoms == <<"copy", "drop", "store", "key", "foo">>
AbilityOf == <<"Copy", "Drop", "Store", "Key">>

ItemSeqs(n) == UNION {[1..m -> 1..Len(AbilityAtoms)] : m \in 1..n}

\* where the list is: after `has`, or the constraint of a type parameter of
\* a struct or of a function
AbilityLists ==
    {[ctx |-> c, items |-> i, trail |-> t] :
        c \in {"has", "struct", "function"}, i \in ItemSeqs(MaxAbil), t \in BOOLEAN}

Separator(ctx) == IF ctx = "has" THEN <<",", " ">> ELSE <<" ", "+", " ">>

RECURSIVE AbilityListText(_, _)
AbilityListText(items, sep) ==
    IF Len(items) = 0 THEN <<>>
    ELSE IF Len(items) = 1 THEN <<AbilityAtoms[items[1]]>>
    ELSE AbilityListText(SubSeq(items, 1, Len(items) - 1), sep)
           \o sep \o <<AbilityAtoms[items[Len(items)]]>>

ListPrefix(ctx) ==
    <<"module", " ", "0x1", ".", "M", "{">> \o
    (CASE ctx = "has" -> <<"struct", " ", "S", " ", "has", " ">>
       [] ctx = "struct" -> <<"struct", " ", "S", "<", "T", ":", " ">>
       [] ctx = "function" -> <<"f", "<", "T", ":", " ">>)

ListSuffix(ctx) ==
    (CASE ctx = "has" -> <<"{", "f", ":", "u8", "}">>
       [] ctx = "struct" -> <<">", "{", "f", ":", "u8", "}">>
       [] ctx = "function" -> <<">", "(", ")">> \o Body)
    \o <<"}">>

AbilityText(g) ==
    ListPrefix(g.ctx) \o AbilityListText(g.items, Separator(g.ctx))
      \o (IF g.trail THEN Separator(g.ctx) ELSE <<>>) \o ListSuffix(g.ctx)

InitAbility ==
    /\ gen \in AbilityLists
    /\ text = AbilityText(gen)
    /\ pc = "input"
    /\ call = "none"
    /\ res = NoRes

ParseAbilityList ==
    /\ pc = "input"
    /\ pc' = "done"
    /\ call' = "parse_module_string"
    /\ res' = Run("parse_module_string", text, <<>>)
    /\ UNCHANGED <<text, gen>>

NextAbility == ParseAbilityList

SpecAbility == InitAbility /\ [][NextAbility]_vars

\* the list names an ability twice
HasDuplicate(items) ==
    \E i, j \in 1..Len(items) : i < j /\ items[i] = items[j] /\ items[i] <= Len(AbilityOf)

\* every item is an ability and nothing dangles after the last one
WellFormedList(g) ==
    /\ \A i \in 1..Len(g.items) : g.items[i] <= Len(AbilityOf)
    /\ ~g.trail

\* the first item that repeats an earlier one
FirstRepeat(items) ==
    CHOOSE j \in 1..Len(items) :
        /\ \E i \in 1..(j - 1) : items[i] = items[j]
        /\ \A k \in 1..(j - 1) : \A i \in 1..(k - 1) : items[i] # items[k]

\* the span of the token of item i in the text of g
ItemSpan(g, i) ==
    LET before == ListPrefix(g.ctx)
                    \o AbilityListText(SubSeq(g.items, 1, i - 1), Separator(g.ctx))
                    \o (IF i > 1 THEN Separator(g.ctx) ELSE <<>>)
        s == SumLen(before, Len(before))
    IN [start |-> s, end |-> s + Len(AbilityAtoms[g.items[i]])]

\* the ability set the parsed module holds for the list of g
AbilitySetOf(g, m) ==
    CASE g.ctx = "has" -> m.structs[1].value.abilities
      [] g.ctx = "struct" -> m.structs[1].value.type_formals[1].abilities
      [] g.ctx = "function" -> m.functions[1].func.value.type_parameters[1].abilities

(***************************************************************************)
(* The unit an entry point parses, before it looks for the end of file.    *)
(***************************************************************************)
\* the unit of the entry point last called
UnitParsed ==
    CASE call = "parse_module_string" -> Run("module_unit", text, <<>>)
      [] call = "parse_script_string" -> Run("script_unit", text, <<>>)
      [] call = "parse_script_or_module_string" -> Run("script_or_module_unit", text, <<>>)

\* C1: when the unit parses and the token after it is not EOF the entry point
\* returns an InvalidToken error; it returns the unit only when the token
\* after the unit is EOF, that is when only blanks follow it in the text.
C1_TrailingToken ==
    pc = "done" =>
        LET unit == UnitParsed IN
        /\ (IsOk(unit) /\ peek(unit.L) # "EOF")
              => (res.st = "err" /\ res.err.kind = "InvalidToken")
        /\ res.st = "ok"
              => /\ IsOk(unit) /\ peek(unit.L) = "EOF" /\ res.v = unit.v
                 /\ Tails[gen.tail] \in {<<>>, <<" ">>}

C1_Witness ==
    /\ pc = "done"
    /\ call = "parse_module_string"
    /\ gen = [unit |-> "module", decl |-> 7, fun |-> 1, stmt |-> 1, tail |-> 4]
    /\ IsOk(UnitParsed)
    /\ peek(UnitParsed.L) = "NameValue"
    /\ res.st = "err"
    /\ res.err.kind = "InvalidToken"

\* C2: every call of an entry point ends in a parsed unit, an InvalidToken
\* error or a User error; none aborts.
C2_NoAbort ==
    pc = "done" =>
        \/ res.st = "ok"
        \/ res.st = "err" /\ res.err.kind \in {"InvalidToken", "User"}

\* C6: at every return of parse_spec_condition, parse_invariant and
\* parse_synthetic, with a value or with an error, spec_mode is false.
C6_SpecModeRestored ==
    pc = "done" =>
        \A r \in res.L.rets : r.st \in {"ok", "err"} => ~r.spec_mode

\* C9: every located node a successful parse has built has
\* Loc.start <= Loc.end.
C9_LocOrdered ==
    (pc = "done" /\ res.st = "ok") =>
        \A n \in res.L.log : n.loc.start <= n.loc.end

C9_Witness ==
    /\ pc = "done"
    /\ call = "parse_module_string"
    /\ gen.stmt = 2
    /\ res.st = "ok"
    /\ \E n \in res.L.log : n.k = "ExprList" /\ n.loc.start < n.loc.end
    /\ \E n \in res.L.log : n.k = "Module" /\ n.loc.start = 0
    /\ \A k \in {"Exp", "Statement", "Block", "BlockLabel", "Function"} :
          \E n \in res.L.log : n.k = k

\* C10: the Loc of every located node starts at or before the first token
\* consumed to build the node and ends at or after the last one.
C10_LocCovers ==
    (pc = "done" /\ res.st = "ok") =>
        \A n \in res.L.log : n.loc.start <= n.first /\ n.loc.end >= n.last

\* C3: in `a op1 b op2 c` parsed by parse_exp, the operator of higher precedence
\* binds tighter: with prec(op1) < prec(op2) the tree is a op1 (b op2 c), and
\* with prec(op1) > prec(op2) it is (a op1 b) op2 c.
C3_PrecedenceNesting ==
    (pc = "done" /\ Len(gen.ops) = 2) =>
        LET a == OperandLoc(gen, 1)
            b == OperandLoc(gen, 2)
            c == OperandLoc(gen, 3)
            op1 == BinOpOf(OpToks[gen.ops[1]])
            op2 == BinOpOf(OpToks[gen.ops[2]])
        IN /\ Prec(gen.ops[1]) < Prec(gen.ops[2]) =>
                res.st = "ok" /\ Shape(res.v) = <<a, op1, <<b, op2, c>>>>
           /\ Prec(gen.ops[1]) > Prec(gen.ops[2]) =>
                res.st = "ok" /\ Shape(res.v) = <<<<a, op1, b>>, op2, c>>

C3_Witness ==
    /\ pc = "done"
    /\ gen.ops = <<14, 16>>
    /\ gen.kind = 2
    /\ res.st = "ok"
    /\ res.v.value.op = "Add"
    /\ res.v.value.rhs.value.k = "BinopExp"
    /\ res.v.value.rhs.value.op = "Mul"

\* C4: a chain of two or more operators of one precedence parsed by parse_exp
\* is the left-nested tree, whatever the length of the chain.
C4_LeftAssociative ==
    (/\ pc = "done"
     /\ Len(gen.ops) >= 2
     /\ \A i \in 1..Len(gen.ops) : Prec(gen.ops[i]) = Prec(gen.ops[1])) =>
        res.st = "ok" /\ Shape(res.v) = LeftNested(gen, Len(gen.ops))

C4_Witness ==
    /\ pc = "done"
    /\ gen.ops = <<16, 17, 18>>
    /\ res.st = "ok"
    /\ res.v.value.op = "Mod"
    /\ res.v.value.lhs.value.op = "Div"
    /\ res.v.value.lhs.value.lhs.value.op = "Mul"

\* C5: a vector type nested n deep whose closers are adjacent parses to the
\* n-fold Vector type; exactly the closers of the type are consumed, every
\* '>>' the lexer makes of them is rewritten by replace_token (one at each
\* closer but the last), and the token that follows the type is the current
\* token afterwards.
C5_NestedClosers ==
    pc = "done" =>
        LET closers == IF gen.wrap THEN gen.depth + 1 ELSE gen.depth
            typeEnd == SumLen(TypeText(gen), Len(TypeText(gen)))
            blank == IF Followers[gen.follow] # <<>> /\ Followers[gen.follow][1] = Blank
                     THEN 1 ELSE 0
        IN /\ res.st = "ok"
           /\ res.v = ExpectedType(gen)
           /\ previous_end_loc(res.L) = typeEnd
           /\ peek(res.L) = FollowerToks[gen.follow]
           /\ start_loc(res.L) = typeEnd + blank
           /\ res.L.nrep = closers - 1

C5_Witness ==
    /\ pc = "done"
    /\ gen = [depth |-> 3, elem |-> 1, follow |-> 1, wrap |-> FALSE]
    /\ res.st = "ok"
    /\ res.v = [k |-> "Vector", ty |-> [k |-> "Vector", ty |-> [k |-> "Vector", ty |-> [k |-> "U8"]]]]
    /\ res.L.nrep = 2
    /\ peek(res.L) = "Semicolon"

\* C7: a module in which one `has` list or one constraint list names an
\* ability twice fails to parse; the error is of kind User when the list is
\* well formed up to its terminator, and InvalidToken, from the first
\* malformed item or dangling separator, otherwise.
C7_DuplicateFails ==
    (pc = "done" /\ HasDuplicate(gen.items)) =>
        /\ res.st = "err"
        /\ res.err.kind = (IF WellFormedList(gen) THEN "User" ELSE "InvalidToken")

C7_Witness ==
    /\ pc = "done"
    /\ gen.ctx = "function"
    /\ gen.items = <<2, 1, 2>>
    /\ ~gen.trail
    /\ res.st = "err"
    /\ res.err.kind = "User"

\* C7 as stated: the error is of kind User whatever follows the duplicate
C7_AlwaysUser ==
    (pc = "done" /\ HasDuplicate(gen.items)) => (res.st = "err" /\ res.err.kind = "User")

\* C8: for a well-formed list with a duplicate the User error is located at
\* the token of the first item repeating an earlier one; a list that parses
\* yields a set with as many elements as distinct abilities were listed.
C8_DuplicateLocation ==
    (pc = "done" /\ WellFormedList(gen)) =>
        IF HasDuplicate(gen.items)
        THEN /\ res.st = "err"
             /\ res.err.kind = "User"
             /\ res.err.loc = ItemSpan(gen, FirstRepeat(gen.items))
        ELSE /\ res.st = "ok"
             /\ AbilitySetOf(gen, res.v) = {AbilityOf[gen.items[i]] : i \in 1..Len(gen.items)}
             /\ Cardinality(AbilitySetOf(gen, res.v))
                  = Cardinality({gen.items[i] : i \in 1..Len(gen.items)})

C8_Witness ==
    /\ pc = "done"
    /\ gen.ctx = "has"
    /\ gen.items = <<1, 2, 1>>
    /\ ~gen.trail
    /\ res.st = "err"
    /\ res.err.kind = "User"
    /\ res.err.loc = [start |-> 38, end |-> 42]

(***************************************************************************)
(* parse_function_visibility applied to the start of a function            *)
(* declaration.                                                            *)
(***************************************************************************)
\* what stands where the visibility is written
VisForms ==
    << <<>>,
       <<"public">>,
       <<"public", "(", "friend", ")">>,
       <<"public", "(", "script", ")">>,
       <<"public", " ", "(", " ", "friend", " ", ")">>,
       <<"public", "(", "x", ")">>,
       <<"public", "(", "public", ")">>,
       <<"public", "(", "native", ")">>,
       <<"public", "(", ")">>,
       <<"public", "(", "1", ")">>,
       <<"public", "(", "(", "friend", ")", ")">>,
       <<"public", "(", "@", ")">>,
       <<"public", "(">> >>

\* the forms with a complete visibility, and the visibility each one writes
VisWritten ==
    [f \in 1..5 |-> <<"Internal", "Public", "Friend", "Public", "Friend">>[f]]

\* the rest of the declaration
VisFollowers ==
    << <<" ", "f", "(", ")">>,
       <<" ", "entry", " ", "f", "(", ")">>,
       <<" ", " ", "f", "<", "T", ">", "(", ")">>,
       <<" ", "g", "(", "x", ":", "u8", ")">>,
       <<" ", "f">> >>

Visibilities ==
    {[form |-> f, rest |-> r] : f \in 1..Len(VisForms), r \in 1..Len(VisFollowers)}

InitVisibility ==
    /\ gen \in Visibilities
    /\ text = VisForms[gen.form] \o VisFollowers[gen.rest]
    /\ pc = "input"
    /\ call = "none"
    /\ res = NoRes

ParseVisibility ==
    /\ pc = "input"
    /\ pc' = "done"
    /\ call' = "parse_function_visibility"
    /\ res' = Run("VisibilityOf", text, <<>>)
    /\ UNCHANGED <<text, gen>>

NextVisibility == ParseVisibility

SpecVisibility == InitVisibility /\ [][NextVisibility]_vars

\* C11: parse_function_visibility returns the visibility written (no
\* `public` Internal, `public` Public, `public(friend)` Friend,
\* `public(script)` Public), and for any other token between the parentheses
\* it returns an InvalidToken error.
C11_Visibility ==
    pc = "done" =>
        IF gen.form \in DOMAIN VisWritten
        THEN res.st = "ok" /\ res.v = VisWritten[gen.form]
        ELSE res.st = "err" /\ res.err.kind = "InvalidToken"

(***************************************************************************)
(* parse_import_decl applied to one import declaration.                    *)
(***************************************************************************)
ImportAddrs == <<"0x1", "0x2">>
ImportNames == <<"N", "Self">>

\* the alias written after `as`; <<>> is no alias, the last one is a keyword
ImportAliases == << <<>>, <<"K">>, <<"Self">>, <<"self">>, <<"N">>, <<"Selfish">>, <<"main">> >>

\* what follows the declaration
ImportFollowers ==
    << <<>>, <<" ", "f", "(", ")">>, <<"import", " ", "0x1", ".", "K", ";">> >>

Imports ==
    {[addr |-> a, name |-> n, alias |-> al, rest |-> r] :
        a \in 1..Len(ImportAddrs), n \in 1..Len(ImportNames),
        al \in 1..Len(ImportAliases), r \in 1..Len(ImportFollowers)}

ImportText(g) ==
    <<"import", " ", ImportAddrs[g.addr], ".", ImportNames[g.name]>>
      \o (IF ImportAliases[g.alias] = <<>> THEN <<>>
          ELSE <<" ", "as", " ">> \o ImportAliases[g.alias])
      \o <<";">> \o ImportFollowers[g.rest]

InitImport ==
    /\ gen \in Imports
    /\ text = ImportText(gen)
    /\ pc = "input"
    /\ call = "none"
    /\ res = NoRes

ParseImportDecl ==
    /\ pc = "input"
    /\ pc' = "done"
    /\ call' = "parse_import_decl"
    /\ res' = Run("ImportOf", text, <<>>)
    /\ UNCHANGED <<text, gen>>

NextImport == ParseImportDecl

SpecImport == InitImport /\ [][NextImport]_vars

\* the alias of g is a name (no alias, or a keyword, is not)
AliasIsName(g) == g.alias \in 2..6

\* C12: an import whose alias is the name Self returns a User error that
\* carries a location; an import with another name as alias, or with no
\* alias, returns the ImportDefinition of its module identifier and alias.
C12_ReservedAlias ==
    pc = "done" =>
        /\ ImportAliases[gen.alias] = <<"Self">>
              => /\ res.st = "err" /\ res.err.kind = "User"
                 /\ res.err.loc.start <= res.err.loc.end
        /\ (gen.alias = 1 \/ (AliasIsName(gen) /\ ImportAliases[gen.alias] # <<"Self">>))
              => /\ res.st = "ok"
                 /\ res.v.ident = [name |-> ImportNames[gen.name],
                                   address |-> ImportAddrs[gen.addr]]
                 /\ res.v.alias = (IF gen.alias = 1 THEN "none"
                                   ELSE ImportAliases[gen.alias][1])

(***************************************************************************)
(* The main function of a parsed script.                                   *)
(***************************************************************************)
\* C13: the main function of every Script that is returned is Public, an
\* entry, has no return types, no acquires, no specifications and a Move
\* body, whatever the imports, type formals, arguments and body are.
C13_ScriptMain ==
    (pc = "done" /\ res.st = "ok" /\ res.v.k = "Script") =>
        LET main == res.v.main.value IN
        /\ main.visibility = "Public"
        /\ main.is_entry
        /\ main.ret = <<>>
        /\ main.acquires = <<>>
        /\ main.specifications = <<>>
        /\ main.body.k = "Move"

C13_Witness ==
    /\ pc = "done"
    /\ call = "parse_script_string"
    /\ gen = [unit |-> "script", decl |-> 1, fun |-> 2, stmt |-> 1, tail |-> 1]
    /\ res.st = "ok"
    /\ res.v.k = "Script"
    /\ Len(res.v.main.value.args) = 1
    /\ Len(res.v.main.value.type_parameters) = 1

(***************************************************************************)
(* parse_module applied to a module whose body is a sequence of            *)
(* declarations of any kinds in any order.                                 *)
(***************************************************************************)
DeclKinds == <<"friend", "import", "synthetic", "struct", "native struct", "function">>

\* the group of a kind in `friends* imports* synthetics* structs* functions*`
DeclGroup == <<1, 2, 3, 4, 4, 5>>

\* the name of the declaration at position i
DeclName(i) == <<"n1", "n2", "n3", "n4">>[i]

DeclText(kind, i) ==
    CASE kind = 1 -> <<"friend", " ", "0x2", ".", DeclName(i), ";">>
      [] kind = 2 -> <<"import", " ", "0x2", ".", DeclName(i), ";">>
      [] kind = 3 -> <<"synthetic", " ", DeclName(i), ":", "u8", ";">>
      [] kind = 4 -> <<"struct", " ", DeclName(i), "{", "f", ":", "u8", "}">>
      [] kind = 5 -> <<"native", " ", "struct", " ", DeclName(i), ";">>
      [] kind = 6 -> <<DeclName(i), "(", ")">> \o Body

DeclSeqs == UNION {[1..m -> 1..Len(DeclKinds)] : m \in 0..MaxDecls}

RECURSIVE DeclsText(_, _)
DeclsText(kinds, n) ==
    IF n = 0 THEN <<>> ELSE DeclsText(kinds, n - 1) \o DeclText(kinds[n], n)

InitOrder ==
    /\ gen \in DeclSeqs
    /\ text = <<"module", " ", "0x1", ".", "M", "{">> \o DeclsText(gen, Len(gen)) \o <<"}">>
    /\ pc = "input"
    /\ call = "none"
    /\ res = NoRes

ParseModule ==
    /\ pc = "input"
    /\ pc' = "done"
    /\ call' = "parse_module"
    /\ res' = Run("module_unit", text, <<>>)
    /\ UNCHANGED <<text, gen>>

NextOrder == ParseModule

SpecOrder == InitOrder /\ [][NextOrder]_vars

\* no declaration stands after a declaration of a later group
InGroupOrder(kinds) ==
    \A i, j \in 1..Len(kinds) : i < j => DeclGroup[kinds[i]] <= DeclGroup[kinds[j]]

RECURSIVE NamesOfGroup(_, _, _)
\* the names of the declarations of group grp among the first n, in source order
NamesOfGroup(kinds, grp, n) ==
    IF n = 0 THEN <<>>
    ELSE NamesOfGroup(kinds, grp, n - 1)
           \o (IF DeclGroup[kinds[n]] = grp THEN <<DeclName(n)>> ELSE <<>>)

\* C14: a module body with a declaration after one of a later group (the
\* groups are friends, imports, synthetics, structs, functions) makes
\* parse_module return InvalidToken; a body in group order parses, and each
\* list of the module holds the declarations of its group in source order.
C14_DeclarationOrder ==
    pc = "done" =>
        IF InGroupOrder(gen)
        THEN /\ res.st = "ok"
             /\ [i \in 1..Len(res.v.friends) |-> res.v.friends[i].name]
                  = NamesOfGroup(gen, 1, Len(gen))
             /\ [i \in 1..Len(res.v.imports) |-> res.v.imports[i].ident.name]
                  = NamesOfGroup(gen, 2, Len(gen))
             /\ [i \in 1..Len(res.v.synthetics) |-> res.v.synthetics[i].value.name]
                  = NamesOfGroup(gen, 3, Len(gen))
             /\ [i \in 1..Len(res.v.structs) |-> res.v.structs[i].value.name]
                  = NamesOfGroup(gen, 4, Len(gen))
             /\ [i \in 1..Len(res.v.functions) |-> res.v.functions[i].name]
                  = NamesOfGroup(gen, 5, Len(gen))
        ELSE res.st = "err" /\ res.err.kind = "InvalidToken"

C14_Witness ==
    /\ pc = "done"
    /\ gen = <<2, 2, 1>>
    /\ res.st = "err"
    /\ res.err.kind = "InvalidToken"

(***************************************************************************)
(* parse_synthetic applied to `synthetic f : T ;` for the types T.         *)
(***************************************************************************)
\* how the type is borrowed: not, `&`, `&mut `
RefAtoms == << <<>>, <<"&">>, <<"&", "mut", " ">> >>

\* an element type, in 0..MaxDepth vectors, alone or as the type actual of a
\* struct type, borrowed or not
SynTypes ==
    {[depth |-> n, elem |-> e, wrap |-> w, ref |-> r] :
        n \in 0..MaxDepth, e \in 1..Len(ElemAtoms), w \in BOOLEAN, r \in 1..Len(RefAtoms)}

SynTypeText(g) == RefAtoms[g.ref] \o TypeText(g)

InitSynthetic ==
    /\ gen \in SynTypes
    /\ text = <<"synthetic", " ", "f", " ", ":", " ">> \o SynTypeText(gen) \o <<" ", ";">>
    /\ pc = "input"
    /\ call = "none"
    /\ res = NoRes

ParseSynthetic ==
    /\ pc = "input"
    /\ pc' = "done"
    /\ call' = "parse_synthetic"
    /\ res' = Run("SyntheticOf", text, <<>>)
    /\ UNCHANGED <<text, gen>>

NextSynthetic == ParseSynthetic

SpecSynthetic == InitSynthetic /\ [][NextSynthetic]_vars

\* the type text of g followed by `;`, as parse_type reads it outside spec mode
AsLetType(g) == Run("TypeOf", SynTypeText(g) \o <<" ", ";">>, <<>>)

\* C15: for every type text that parse_type accepts outside spec mode,
\* `synthetic f : T ;` parses and its type_ is the type that T denotes.
C15_SyntheticTypes ==
    pc = "done" =>
        LET t == AsLetType(gen) IN
        t.st = "ok" => (res.st = "ok" /\ res.v.value.type_ = t.v)

(***************************************************************************)
(* parse_statement applied to an assert statement.                         *)
(***************************************************************************)
\* how the statement opens: `assert(`, or with a blank before the `(`
AssertOpeners == << <<"assert", "(">>, <<"assert", " ", "(">> >>

\* the condition as written
AssertConds ==
    << <<"true">>,
       <<"copy", "(", "x", ")">>,
       <<"1", "=", "=", "2">>,
       <<"!", "true">>,
       <<"(", "1", "+", "2", ")", "*", "7">>,
       <<"1", " ", "<", " ", "2", " ", "&", "&", " ", "true">>,
       <<"move", "(", "y", ")">>,
       <<"!", "!", "false">>,
       <<"x">>,
       <<"@">>,
       <<"1", "=", "=", ">", "2">> >>

\* the error code as written
AssertErrs ==
    << <<"7">>,
       <<"1", "+", "2">>,
       <<" ", "copy", "(", "e", ")", " ">>,
       <<"0x1">>,
       <<"256u8">>,
       <<"7", ",">> >>

Asserts ==
    {[open |-> o, cond |-> c, err |-> e] :
        o \in 1..Len(AssertOpeners), c \in 1..Len(AssertConds), e \in 1..Len(AssertErrs)}

AssertText(g) ==
    AssertOpeners[g.open] \o AssertConds[g.cond] \o <<",">> \o AssertErrs[g.err]
      \o <<")", ";">>

InitAssert ==
    /\ gen \in Asserts
    /\ text = AssertText(gen)
    /\ pc = "input"
    /\ call = "none"
    /\ res = NoRes

ParseStatement ==
    /\ pc = "input"
    /\ pc' = "done"
    /\ call' = "parse_statement"
    /\ res' = Run("StatementOf", text, <<>>)
    /\ UNCHANGED <<text, gen>>

NextAssert == ParseStatement

SpecAssert == InitAssert /\ [][NextAssert]_vars

\* the atoms `atoms` as parse_exp reads them when they stand after `before`
\* in the text and before the atom `after`
ExpAfter(before, atoms, after) ==
    Run("ExpOf", Rep(<<" ">>, SumLen(before, Len(before))) \o atoms \o <<after>>, <<>>)

CondOf(g) == ExpAfter(AssertOpeners[g.open], AssertConds[g.cond], ",")

ErrOf(g) ==
    ExpAfter(AssertOpeners[g.open] \o AssertConds[g.cond] \o <<",">>, AssertErrs[g.err], ")")

\* the statement is UnaryExp(Not, e) at the Loc of e, then an error code
IsAssertNot(stmt) ==
    /\ stmt.cond.value.k = "UnaryExp"
    /\ stmt.cond.value.op = "Not"
    /\ stmt.cond.loc = stmt.cond.value.exp.loc

\* C16: `assert(cond, err)` parses to Assert(Not(cond), err), where the Not
\* node has the Loc of cond and err is the expression as parse_exp reads it;
\* every Assert statement produced has such a Not node as first component.
C16_AssertNot ==
    pc = "done" =>
        LET c == CondOf(gen)
            e == ErrOf(gen)
        IN
        /\ (/\ gen.open = 1
            /\ c.st = "ok" /\ peek(c.L) = "Comma"
            /\ e.st = "ok" /\ peek(e.L) = "RParen")
              => /\ res.st = "ok"
                 /\ res.v.value.k = "Assert"
                 /\ IsAssertNot(res.v.value)
                 /\ res.v.value.cond.value.exp = c.v
                 /\ res.v.value.err = e.v
        /\ (res.st = "ok" /\ res.v.value.k = "Assert") => IsAssertNot(res.v.value)

C16_Witness ==
    /\ pc = "done"
    /\ gen = [open |-> 1, cond |-> 3, err |-> 2]
    /\ res.st = "ok"
    /\ res.v.value.k = "Assert"
    /\ res.v.value.cond.loc = [start |-> 7, end |-> 11]
    /\ res.v.value.cond.value.exp.value.k = "BinopExp"

(***************************************************************************)
(* parse_spec_exp applied to chains of binary operators.                   *)
(***************************************************************************)
\* the tokens get_precedence knows: those of the spec grammar alone, then
\* the ones of the ordinary grammar
SpecOpAtoms == << <<"=", "=", ">">>, <<":", "=">>, <<".", ".">> >> \o OpAtoms
SpecOpToks == <<"EqualEqualGreater", "ColonEqual", "PeriodPeriod">> \o OpToks

\* the operators both operator matches have an arm for
CommonOps == {o \in 1..Len(SpecOpToks) :
                 BinOpOf(SpecOpToks[o]) # "none" /\ SpecBinOpOf(SpecOpToks[o]) # "none"}

\* unary operands of a spec expression: a number, a name, old(number)
SpecOperand(kind, i) ==
    CASE kind = 1 -> <<(<<"1", "2", "7", "255", "0">>[i])>>
      [] kind = 2 -> <<(<<"x", "y", "z", "w", "v">>[i])>>
      [] OTHER -> <<"old", "(", (<<"1", "2", "7", "255", "0">>[i]), ")">>

SpecOpText(o, sp) == IF sp THEN <<" ">> \o SpecOpAtoms[o] \o <<" ">> ELSE SpecOpAtoms[o]

RECURSIVE SpecChainText(_, _, _, _)
SpecChainText(ops, kind, sp, n) ==
    IF n = 0 THEN SpecOperand(kind, 1)
    ELSE SpecChainText(ops, kind, sp, n - 1) \o SpecOpText(ops[n], sp)
           \o SpecOperand(kind, n + 1)

SpecOpSeqs(n) == UNION {[1..m -> 1..Len(SpecOpAtoms)] : m \in 1..n}

SpecChains ==
    {[ops |-> ops, kind |-> k, sp |-> sp] :
        ops \in SpecOpSeqs(2), k \in OperandKinds, sp \in BOOLEAN}
      \cup
    {[ops |-> ops, kind |-> 1, sp |-> FALSE] : ops \in SpecOpSeqs(MaxOps)}

InitSpecExp ==
    /\ gen \in SpecChains
    /\ text = SpecChainText(gen.ops, gen.kind, gen.sp, Len(gen.ops)) \o <<";">>
    /\ pc = "input"
    /\ call = "none"
    /\ res = NoRes

ParseSpecExp ==
    /\ pc = "input"
    /\ pc' = "done"
    /\ call' = "parse_spec_exp"
    /\ res' = Run("SpecExpOf", text, <<>>)
    /\ UNCHANGED <<text, gen>>

NextSpecExp == ParseSpecExp

SpecSpecExp == InitSpecExp /\ [][NextSpecExp]_vars

SpecPrec(o) == get_precedence(SpecOpToks[o])

\* the operand i of the chain of g, as parse_spec_exp reads it on its own
SpecOperandValue(g, i) == Run("SpecExpOf", SpecOperand(g.kind, i) \o <<";">>, <<>>).v

\* the last operator of lowest precedence among the operators lo..hi
RootOp(ops, lo, hi) ==
    CHOOSE k \in lo..hi :
        /\ \A j \in lo..hi : SpecPrec(ops[k]) <= SpecPrec(ops[j])
        /\ \A j \in (k + 1)..hi : SpecPrec(ops[k]) < SpecPrec(ops[j])

\* the node the grammar gives for `lhs op rhs`
SpecNode(lhs, tok, rhs) ==
    CASE tok = "EqualEqualGreater" ->
           [k |-> "Binop", lhs |-> [k |-> "Not", exp |-> lhs], op |-> "Or", rhs |-> rhs]
      [] tok = "ColonEqual" -> [k |-> "Update", lhs |-> lhs, rhs |-> rhs]
      [] tok = "PeriodPeriod" -> [k |-> "Binop", lhs |-> lhs, op |-> "Subrange", rhs |-> rhs]
      [] OTHER -> [k |-> "Binop", lhs |-> lhs, op |-> BinOpOf(tok), rhs |-> rhs]

RECURSIVE SpecTree(_, _, _)
\* the tree of operands lo..hi of the chain of g: operators of higher
\* precedence bind tighter, operators of one precedence nest to the left
SpecTree(g, lo, hi) ==
    IF lo = hi THEN SpecOperandValue(g, lo)
    ELSE LET k == RootOp(g.ops, lo, hi - 1)
         IN SpecNode(SpecTree(g, lo, k), SpecOpToks[g.ops[k]], SpecTree(g, k + 1, hi))

RECURSIVE OpShape(_)
\* the tree of an expression of parse_exp: its operators and its literals
OpShape(e) ==
    IF e.value.k = "BinopExp"
    THEN <<OpShape(e.value.lhs), e.value.op, OpShape(e.value.rhs)>>
    ELSE e.value.val.value

RECURSIVE SpecOpShape(_)
\* the tree of an expression of parse_spec_exp: its operators and its literals
SpecOpShape(e) ==
    IF e.k = "Binop" THEN <<SpecOpShape(e.lhs), e.op, SpecOpShape(e.rhs)>> ELSE e.val

\* the text of the chain of g as parse_exp reads it
AsOrdinaryExp == Run("ExpOf", text, <<>>)

\* C18: on a chain of literals and operators that both grammars have,
\* parse_exp and parse_spec_exp both succeed and build trees of one shape
\* with the same BinOp at every node and the same literal at every leaf.
C18_LoopsAgree ==
    (pc = "done" /\ gen.kind = 1 /\ \A i \in 1..Len(gen.ops) : gen.ops[i] \in CommonOps) =>
        LET e == AsOrdinaryExp IN
        /\ e.st = "ok"
        /\ res.st = "ok"
        /\ OpShape(e.v) = SpecOpShape(res.v)

C18_Witness ==
    /\ pc = "done"
    /\ gen = [ops |-> <<17, 19, 6>>, kind |-> 1, sp |-> FALSE]
    /\ res.st = "ok"
    /\ AsOrdinaryExp.st = "ok"
    /\ SpecOpShape(res.v)[2] = "Eq"
    /\ OpShape(AsOrdinaryExp.v)[1][3][2] = "Mul"

\* C19: neither loop aborts on a token that has a precedence: after an
\* operand, parse_rhs_of_binary_exp and parse_rhs_of_spec_exp each build a
\* node for the operator or return an error value.
C19_NoOperatorAbort ==
    pc = "done" => (res.st # "panic" /\ AsOrdinaryExp.st # "panic")

(***************************************************************************)
(* parse_comma_list applied to generated lists.                            *)
(***************************************************************************)
\* the two uses modelled here: the lvalues of parse_assign_, which end at
\* '=', and the arguments of a call, which end at ')'
ListEnds == <<{"Equal"}, {"RParen"}>>
ListItems == <<"lvalue", "exp">>
ListEndAtom == <<"=", ")">>
ListItemAtoms == << <<"x", "_">>, <<"1", "true">> >>

\* an element of a generated list: its first item, its second item, a comma
ListElemAtom(use, e) == IF e = 3 THEN "," ELSE ListItemAtoms[use][e]

\* what follows the elements: an end token, a token that is neither an end
\* token nor a comma, the end of the input
ListTails == <<1, 2, 3>>
ListTailAtoms(use, tail) ==
    CASE tail = 1 -> <<ListEndAtom[use]>>
      [] tail = 2 -> <<";">>
      [] OTHER -> <<>>

RECURSIVE ListElemsText(_, _, _)
ListElemsText(use, elems, n) ==
    IF n = 0 THEN <<>>
    ELSE ListElemsText(use, elems, n - 1) \o <<ListElemAtom(use, elems[n]), " ">>

ListText(g) == ListElemsText(g.use, g.elems, Len(g.elems)) \o ListTailAtoms(g.use, g.tail)

Lists ==
    [use : 1..Len(ListEnds),
     elems : UNION {[1..n -> 1..3] : n \in 0..MaxElems},
     tail : {ListTails[i] : i \in 1..Len(ListTails)},
     trailing : BOOLEAN]

InitList ==
    /\ gen \in Lists
    /\ text = ListText(gen)
    /\ pc = "input"
    /\ call = "none"
    /\ res = NoRes

ParseCommaList ==
    /\ pc = "input"
    /\ res' = Run("CommaListOf", text,
                  <<ListEnds[gen.use], ListItems[gen.use], gen.trailing>>)
    /\ call' = "parse_comma_list"
    /\ pc' = "done"
    /\ UNCHANGED <<text, gen>>

NextList == ParseCommaList

SpecList == InitList /\ [][NextList]_vars

\* items at the odd places, commas at the even ones, up to place n
Alternates(elems, n) ==
    \A i \in 1..n : IF i % 2 = 1 THEN elems[i] # 3 ELSE elems[i] = 3

\* item (, item)* or nothing
Separated(elems) ==
    Len(elems) = 0 \/ (Len(elems) % 2 = 1 /\ Alternates(elems, Len(elems)))

\* item (, item)* followed by one more comma
SeparatedThenComma(elems) ==
    Len(elems) > 0 /\ Len(elems) % 2 = 0 /\ Alternates(elems, Len(elems))

\* the byte at which the k-th item of the list starts
ItemStart(g, k) == SumLen(ListText(g), 2 * (2 * k - 2))

\* the k-th item of the list, parsed as a list of its own at its place in
\* the text
ItemAlone(g, k) ==
    Run("CommaListOf",
        Rep(<<" ">>, ItemStart(g, k)) \o <<ListElemAtom(g.use, g.elems[2 * k - 1]), " ",
                                           ListEndAtom[g.use]>>,
        <<ListEnds[g.use], ListItems[g.use], g.trailing>>)

\* C20: parse_comma_list succeeds exactly on item (, item)* before an end
\* token, and on the same followed by one comma when allow_trailing_comma
\* is set; the empty list is accepted and a lone comma is not.  On success
\* the items come back in source order and the end token is the current
\* token, not consumed.
C20_CommaList ==
    pc = "done" =>
        LET accepted ==
                /\ gen.tail = 1
                /\ \/ Separated(gen.elems)
                   \/ gen.trailing /\ SeparatedThenComma(gen.elems)
            n == (Len(gen.elems) + 1) \div 2
        IN
        /\ res.st \in {"ok", "err"}
        /\ (res.st = "ok") <=> accepted
        /\ res.st = "ok" =>
             /\ Len(res.v) = n
             /\ \A k \in 1..n :
                    /\ res.v[k].loc.start = ItemStart(gen, k)
                    /\ ItemAlone(gen, k).st = "ok"
                    /\ res.v[k] = ItemAlone(gen, k).v[1]
             /\ peek(res.L) \in ListEnds[gen.use]
             /\ res.L.cur = 2 * Len(gen.elems) + 1
             /\ content(res.L) = <<ListEndAtom[gen.use]>>
        /\ (gen.elems = <<>> /\ gen.tail = 1) => (res.st = "ok" /\ res.v = <<>>)
        /\ gen.elems = <<3>> => res.st = "err"

\* x , _ , = with a trailing comma allowed: two lvalues, '=' left as current
C20_Witness ==
    /\ pc = "done"
    /\ gen = [use |-> 1, elems |-> <<1, 3, 2, 3>>, tail |-> 1, trailing |-> TRUE]
    /\ res.st = "ok"
    /\ Len(res.v) = 2
    /\ res.v[1].value.k = "Var"
    /\ res.v[2].value.k = "Pop"
    /\ peek(res.L) = "Equal"

\* x , = with no trailing comma allowed, as in parse_assign_: rejected
C20_WitnessStrict ==
    /\ pc = "done"
    /\ gen = [use |-> 1, elems |-> <<1, 3>>, tail |-> 1, trailing |-> FALSE]
    /\ res.st = "err"

(***************************************************************************)
(* parse_storage_location applied to a base and a chain of postfixes.      *)
(***************************************************************************)
StorageBases ==
    << <<"RET">>,
       <<"RET", "(", "1", ")">>,
       <<"0x1">>,
       <<"global", "<", "M", ".", "S", ">", "(", "0x1", ")">>,
       <<"x">> >>
StorageBaseKinds == <<"Ret", "Ret", "Address", "GlobalResource", "Formal">>

\* .f  .g  [1]  [y]  and an index with no expression
StoragePostfixes ==
    << <<".", "f">>, <<".", "g">>, <<"[", "1", "]">>, <<"[", "y", "]">>, <<"[", "]">> >>
StorageFollowers == << <<";">>, <<" ", ")">> >>

RECURSIVE PostfixText(_, _)
PostfixText(ps, n) ==
    IF n = 0 THEN <<>> ELSE PostfixText(ps, n - 1) \o StoragePostfixes[ps[n]]

StorageLocations ==
    [base : 1..Len(StorageBases),
     post : UNION {[1..n -> 1..Len(StoragePostfixes)] : n \in 0..MaxPostfix},
     tail : 1..Len(StorageFollowers)]

StorageText(g) ==
    StorageBases[g.base] \o PostfixText(g.post, Len(g.post)) \o StorageFollowers[g.tail]

InitStorage ==
    /\ gen \in StorageLocations
    /\ text = StorageText(gen)
    /\ pc = "input"
    /\ call = "none"
    /\ res = NoRes

ParseStorageLocation ==
    /\ pc = "input"
    /\ res' = Run("StorageLocationOf", text, <<>>)
    /\ call' = "parse_storage_location"
    /\ pc' = "done"
    /\ UNCHANGED <<text, gen>>

NextStorage == ParseStorageLocation

SpecStorage == InitStorage /\ [][NextStorage]_vars

\* what each well-formed postfix contributes to fields_and_indices
StoragePostfixValues ==
    << [k |-> "Field", field |-> [k |-> "Field", name |-> "f"]],
       [k |-> "Field", field |-> [k |-> "Field", name |-> "g"]],
       [k |-> "Index", exp |-> [k |-> "Constant", val |-> [k |-> "U64", val |-> <<"1">>]]],
       [k |-> "Index",
        exp |-> [k |-> "StorageLocation", loc |-> [k |-> "Formal", name |-> "y"]]] >>

\* the base parsed with no postfix after it
BaseAlone(g) == Run("StorageLocationOf", StorageBases[g.base] \o <<";">>, <<>>)

\* no AccessPath of the location, at any depth, has an empty postfix list
RECURSIVE NoEmptyPath(_)
NoEmptyPath(loc) ==
    CASE loc.k = "AccessPath" ->
           /\ loc.fields_and_indices # <<>>
           /\ NoEmptyPath(loc.base)
           /\ \A i \in 1..Len(loc.fields_and_indices) :
                  LET p == loc.fields_and_indices[i] IN
                  (p.k = "Index" /\ p.exp.k = "StorageLocation") => NoEmptyPath(p.exp.loc)
      [] loc.k = "GlobalResource" -> NoEmptyPath(loc.address)
      [] OTHER -> TRUE

\* C21: parse_storage_location returns the bare base when no postfix
\* follows, and otherwise an AccessPath around the base whose list is not
\* empty and holds the postfixes in source order; no AccessPath with an
\* empty list is produced.
C21_AccessPath ==
    pc = "done" =>
        LET n == Len(gen.post)
            wellFormed == \A i \in 1..n : gen.post[i] <= Len(StoragePostfixValues)
        IN
        /\ (res.st = "ok") <=> wellFormed
        /\ res.st = "ok" =>
             /\ BaseAlone(gen).st = "ok"
             /\ BaseAlone(gen).v.k = StorageBaseKinds[gen.base]
             /\ NoEmptyPath(res.v)
             /\ n = 0 => res.v = BaseAlone(gen).v
             /\ n > 0 =>
                  /\ res.v.k = "AccessPath"
                  /\ res.v.base = BaseAlone(gen).v
                  /\ res.v.fields_and_indices =
                         [i \in 1..n |-> StoragePostfixValues[gen.post[i]]]

\* global<M.S>(0x1).g[1].f
C21_Witness ==
    /\ pc = "done"
    /\ gen = [base |-> 4, post |-> <<2, 3, 1>>, tail |-> 1]
    /\ res.st = "ok"
    /\ res.v.k = "AccessPath"
    /\ res.v.base.k = "GlobalResource"
    /\ Len(res.v.fields_and_indices) = 3
    /\ res.v.fields_and_indices[3].field.name = "f"

(***************************************************************************)
(* The RET arm of parse_storage_location.                                  *)
(***************************************************************************)
\* what is written between the parentheses of RET( ): u64 literals that fit
\* the index, u64 literals that do not, a u64 literal with its suffix,
\* literals of other types, a name, nothing
RetArgs ==
    << <<"0">>, <<"1">>, <<"7">>, <<"255">>, <<"256">>, <<"1256">>, <<"1u64">>,
       <<"1u8">>, <<"1u128">>, <<"true">>, <<"0x1">>, <<"x">>, <<>> >>
RetFits == 1..4
RetFollowers == << <<";">>, <<".", "f", ";">>, <<" ", "=", "=", " ", "1", ";">> >>

\* arg 0 is RET with no parentheses
RetForms == [arg : 0..Len(RetArgs), close : BOOLEAN, tail : 1..Len(RetFollowers)]

RetText(g) ==
    <<"RET">> \o (IF g.arg = 0 THEN <<>>
                  ELSE <<"(">> \o RetArgs[g.arg] \o (IF g.close THEN <<")">> ELSE <<>>))
      \o RetFollowers[g.tail]

InitRet ==
    /\ gen \in RetForms
    /\ text = RetText(gen)
    /\ pc = "input"
    /\ call = "none"
    /\ res = NoRes

NextRet == ParseStorageLocation

SpecRet == InitRet /\ [][NextRet]_vars

\* the base of the location parsed, whether or not postfixes follow
RetBase == IF res.v.k = "AccessPath" THEN res.v.base ELSE res.v

\* the index each u64 literal of RetArgs denotes
RetIndex(arg) == StripZeros(SubSeq(NumChars(RetArgs[arg][1]), 1,
                                   DigitPrefix(NumChars(RetArgs[arg][1]))))

\* C22: bare RET gives Ret(0), RET(i) with a u64 literal i gives Ret(i),
\* and RET( followed by anything that is not a u64 literal usable as the
\* index is rejected with InvalidToken.
C22_RetIndex ==
    pc = "done" =>
        /\ gen.arg = 0 => (res.st = "ok" /\ RetBase = [k |-> "Ret", i |-> <<"0">>])
        /\ (gen.arg \in RetFits \cup {7} /\ gen.close)
              => (res.st = "ok" /\ RetBase = [k |-> "Ret", i |-> RetIndex(gen.arg)])
        /\ (gen.arg > 0 /\ gen.arg \notin RetFits \cup {7})
              => (res.st = "err" /\ res.err.kind = "InvalidToken")

\* the part of C22 that holds: bare RET gives Ret(0), RET(i) with an
\* unsuffixed decimal i of at most 255 gives Ret(i), and nothing else in
\* parentheses gives a location
RetAsBuilt ==
    pc = "done" =>
        /\ gen.arg = 0 => (res.st = "ok" /\ RetBase = [k |-> "Ret", i |-> <<"0">>])
        /\ (gen.arg \in RetFits /\ gen.close)
              => (res.st = "ok" /\ RetBase = [k |-> "Ret", i |-> RetIndex(gen.arg)])
        /\ (gen.arg \in RetFits /\ ~gen.close)
              => (res.st = "err" /\ res.err.kind = "InvalidToken")
        /\ (gen.arg > 0 /\ gen.arg \notin RetFits) => res.st = "panic"

(***************************************************************************)
(* parse_module applied to a module of one struct, with or without `has`.  *)
(***************************************************************************)
\* native or not, `has` written or not, the items after it, a comma after
\* the last item or not
StructHeaders ==
    [native : BOOLEAN, has : BOOLEAN,
     items : UNION {[1..m -> 1..Len(AbilityAtoms)] : m \in 0..MaxAbil},
     trail : BOOLEAN]

StructHeaderText(g) ==
    <<"module", " ", "0x1", ".", "M", "{">>
      \o (IF g.native THEN <<"native", " ">> ELSE <<>>)
      \o <<"struct", " ", "S", " ">>
      \o (IF g.has THEN <<"has", " ">> ELSE <<>>)
      \o AbilityListText(g.items, <<",", " ">>)
      \o (IF g.trail THEN <<",", " ">> ELSE <<>>)
      \o (IF g.native THEN <<";">> ELSE <<"{", "f", ":", "u8", "}">>)
      \o <<"}">>

InitHeader ==
    /\ gen \in StructHeaders
    /\ text = StructHeaderText(gen)
    /\ pc = "input"
    /\ call = "none"
    /\ res = NoRes

NextHeader == ParseModule

SpecHeader == InitHeader /\ [][NextHeader]_vars

\* C23: a struct header with `has` and no ability after it is rejected,
\* and every accepted header with `has` yields a non-empty ability set.
C23_HasNeedsAbility ==
    pc = "done" =>
        /\ (gen.has /\ gen.items = <<>>) => res.st = "err"
        /\ (gen.has /\ res.st = "ok") => res.v.structs[1].value.abilities # {}

(***************************************************************************)
(* parse_module applied to a module of one struct with a generated body.   *)
(***************************************************************************)
\* an element of a body: a field, an invariant, a comma; the field or the
\* invariant at place i of the body is written with the i-th name or number
BodyFieldNames == <<"p", "q", "r", "s", "t">>
BodyNumbers == <<"1", "2", "7", "255", "0">>

BodyElemText(e, i) ==
    CASE e = 1 -> <<BodyFieldNames[i], ":", "u8", " ">>
      [] e = 2 -> <<"invariant", " ", BodyNumbers[i], " ">>
      [] OTHER -> <<",", " ">>

RECURSIVE BodyElemsText(_, _)
BodyElemsText(elems, n) ==
    IF n = 0 THEN <<>> ELSE BodyElemsText(elems, n - 1) \o BodyElemText(elems[n], n)

StructBodies == UNION {[1..n -> 1..3] : n \in 0..MaxBody}

StructBodyText(elems) ==
    <<"module", " ", "0x1", ".", "M", "{", "struct", " ", "S", "{">>
      \o BodyElemsText(elems, Len(elems)) \o <<"}", "}">>

InitBody ==
    /\ gen \in StructBodies
    /\ text = StructBodyText(gen)
    /\ pc = "input"
    /\ call = "none"
    /\ res = NoRes

NextBody == ParseModule

SpecBody == InitBody /\ [][NextBody]_vars

\* no comma opens the body or follows another comma, and no field follows
\* an invariant
BodyOrdered(elems) ==
    /\ \A i \in 1..Len(elems) : elems[i] = 3 => (i > 1 /\ elems[i - 1] # 3)
    /\ \A i, j \in 1..Len(elems) : (i < j /\ elems[i] = 2) => elems[j] # 1

\* two items with no comma between them
Adjacent(elems, i) == i < Len(elems) /\ elems[i] # 3 /\ elems[i + 1] # 3

\* the places of the elements of kind e, in source order
RECURSIVE PlacesOf(_, _, _)
PlacesOf(elems, e, n) ==
    IF n = 0 THEN <<>>
    ELSE PlacesOf(elems, e, n - 1) \o (IF elems[n] = e THEN <<n>> ELSE <<>>)

\* C24: fields precede invariants and a comma separates a field from a
\* field and an invariant from an invariant; the comma between the last
\* field and the first invariant may be left out, being the optional
\* trailing comma of the field list; one trailing comma before '}' is
\* accepted; every other body is rejected with InvalidToken.
C24_StructBody ==
    pc = "done" =>
        LET accepted ==
                /\ BodyOrdered(gen)
                /\ \A i \in 1..Len(gen) :
                       Adjacent(gen, i) => (gen[i] = 1 /\ gen[i + 1] = 2)
            fs == PlacesOf(gen, 1, Len(gen))
            is == PlacesOf(gen, 2, Len(gen))
        IN
        /\ (res.st = "ok") <=> accepted
        /\ res.st # "ok" => (res.st = "err" /\ res.err.kind = "InvalidToken")
        /\ res.st = "ok" =>
             LET s == res.v.structs[1].value IN
             /\ Len(s.fields) = Len(fs)
             /\ \A k \in 1..Len(fs) : s.fields[k][1].value.name = BodyFieldNames[fs[k]]
             /\ Len(s.invariants) = Len(is)
             /\ \A k \in 1..Len(is) :
                    s.invariants[k].value.exp.val.val
                        = NumChars(BodyNumbers[is[k]])

\* p:u8 invariant 2 , invariant 7 : no comma after the field
C24_Witness ==
    /\ pc = "done"
    /\ gen = <<1, 2, 3, 2>>
    /\ res.st = "ok"
    /\ Len(res.v.structs[1].value.fields) = 1
    /\ Len(res.v.structs[1].value.invariants) = 2

\* C24 as first stated: every two adjacent items are separated by a comma,
\* so a body that leaves out any comma is rejected.
C24_CommaEverywhere ==
    pc = "done" =>
        ((\E i \in 1..Len(gen) : Adjacent(gen, i)) => res.st = "err")

(***************************************************************************)
(* Errors on their way from a sub-parser to the entry point.               *)
(***************************************************************************)
\* C25: when an entry point returns an error, that error is the only one
\* raised during the parse, it is returned as it was raised (kind, location
\* and message), no advance or replace_token was made after it, and no
\* value comes with it; a parse that does not end in an error raised none.
C25_FailFast ==
    pc = "done" =>
        /\ res.st = "err" =>
             /\ res.v = NoVal
             /\ Len(res.L.errs) = 1
             /\ res.L.errs[1].err = res.err
             /\ res.L.errs[1].nadv = res.L.nadv
        /\ res.st # "err" => res.L.errs = <<>>

\* an invalid character inside an invariant, met by the 10th advance
C25_Witness ==
    /\ pc = "done"
    /\ call = "parse_module_string"
    /\ gen = [unit |-> "module", decl |-> 16, fun |-> 1, stmt |-> 1, tail |-> 1]
    /\ res.st = "err"
    /\ res.err.kind = "InvalidToken"
    /\ res.L.errs = <<[err |-> res.err, nadv |-> 10]>>
    /\ \E r \in res.L.rets : r.fn = "parse_invariant" /\ r.st = "err"

(***************************************************************************)
(* parse_copyable_val applied to integer literal tokens.                   *)
(***************************************************************************)
IntKinds == <<"U8", "U16", "U32", "U64", "U128", "U256">>
IntToks ==
    <<"U8Value", "U16Value", "U32Value", "U64Value", "U128Value", "U256Value">>
IntSuffixes == <<"u8", "u16", "u32", "u64", "u128", "u256">>

\* the decimal digit strings, and each of them followed by each suffix
IntDigits == <<"0", "1", "2", "7", "255", "256", "1256">>
IntSuffixed ==
    << <<"1u8", "1u16", "1u32", "1u64", "1u128", "1u256">>,
       <<"255u8", "255u16", "255u32", "255u64", "255u128", "255u256">>,
       <<"256u8", "256u16", "256u32", "256u64", "256u128", "256u256">>,
       <<"1256u8", "1256u16", "1256u32", "1256u64", "1256u128", "1256u256">> >>
IntSuffixedDigits == <<"1", "255", "256", "1256">>

\* a token kind, a digit string, the kind's suffix written or not, and the
\* token after the literal
IntLiterals ==
    {[kind |-> k, d |-> IntDigits[i], content |-> IntDigits[i], suffix |-> FALSE,
      tail |-> t] :
        k \in 1..Len(IntKinds), i \in 1..Len(IntDigits), t \in {";", ")"}}
      \cup
    {[kind |-> k, d |-> IntSuffixedDigits[i], content |-> IntSuffixed[i][k],
      suffix |-> TRUE, tail |-> t] :
        k \in 1..Len(IntKinds), i \in 1..Len(IntSuffixed), t \in {";", ")"}}

InitLiteral ==
    /\ gen \in IntLiterals
    /\ text = <<gen.content, gen.tail>>
    /\ pc = "input"
    /\ call = "none"
    /\ res = NoRes

ParseCopyableVal ==
    /\ pc = "input"
    /\ res' = Run("CopyableValOf", text, <<IntToks[gen.kind]>>)
    /\ call' = "parse_copyable_val"
    /\ pc' = "done"
    /\ UNCHANGED <<text, gen>>

NextLiteral == ParseCopyableVal

SpecLiteral == InitLiteral /\ [][NextLiteral]_vars

\* d is in range for the type
InRange(d, ty) == DecLe(StripZeros(NumChars(d)), MaxOf(ty))

SuffixAsBuilt ==
    pc = "done" =>
        LET cs == NumChars(gen.d)
            quirk == /\ gen.kind = 6 /\ ~gen.suffix
                     /\ EndsWith(cs, <<"2", "5", "6">>)
        IN
        InRange(gen.d, IntKinds[gen.kind]) =>
            IF quirk THEN res.st = "panic"
            ELSE /\ res.st = "ok"
                 /\ res.v.value = [k |-> IntKinds[gen.kind], val |-> StripZeros(cs)]

(***************************************************************************)
(* parse_module applied to a module of one function with a generated body. *)
(***************************************************************************)
\* an element of a function body: a let, a label, a statement with its
\* ';', a statement without it; the element at place i is written with the
\* i-th name or number
BlockElemText(e, i) ==
    CASE e = 1 -> <<"let", " ", BodyFieldNames[i], ":", "u8", ";">>
      [] e = 2 -> <<"label", " ", BodyFieldNames[i], ":">>
      [] e = 3 -> <<"abort", " ", BodyNumbers[i], ";">>
      [] OTHER -> <<"abort", " ", BodyNumbers[i], " ">>

RECURSIVE BlockElemsText(_, _)
BlockElemsText(elems, n) ==
    IF n = 0 THEN <<>> ELSE BlockElemsText(elems, n - 1) \o BlockElemText(elems[n], n)

FunctionBodies == UNION {[1..n -> 1..4] : n \in 0..MaxItems}

FunctionBodyText(elems) ==
    <<"module", " ", "0x1", ".", "M", "{", "f", "(", ")", "{">>
      \o BlockElemsText(elems, Len(elems)) \o <<"}", "}">>

InitBlocks ==
    /\ gen \in FunctionBodies
    /\ text = FunctionBodyText(gen)
    /\ pc = "input"
    /\ call = "none"
    /\ res = NoRes

NextBlocks == ParseModule

SpecBlocks == InitBlocks /\ [][NextBlocks]_vars

\* the places of the statements between places lo and hi of the body
RECURSIVE StatementsBetween(_, _, _)
StatementsBetween(elems, lo, hi) ==
    IF hi <= lo + 1 THEN <<>>
    ELSE StatementsBetween(elems, lo, hi - 1)
           \o (IF elems[hi - 1] = 3 THEN <<hi - 1>> ELSE <<>>)

\* lets first, then blocks, each opened by a label; every statement has
\* its ';'
WellFormedBody(elems) ==
    /\ \A i \in 1..Len(elems) : elems[i] # 4
    /\ \A i, j \in 1..Len(elems) : (i < j /\ elems[j] = 1) => elems[i] = 1
    /\ \A i \in 1..Len(elems) : elems[i] = 3 => \E j \in 1..(i - 1) : elems[j] = 2

\* C27: a function body is accepted exactly when its lets come first, its
\* first block and every other one opens with a label, and every statement
\* has its ';'; every other body is rejected with InvalidToken.  The locals
\* are the lets in source order, and the statements of each block are
\* those between its label and the next label or the closing '}', in
\* source order.
C27_BodyShape ==
    pc = "done" =>
        LET n == Len(gen)
            lets == PlacesOf(gen, 1, n)
            labels == PlacesOf(gen, 2, n)
        IN
        /\ (res.st = "ok") <=> WellFormedBody(gen)
        /\ res.st # "ok" => (res.st = "err" /\ res.err.kind = "InvalidToken")
        /\ res.st = "ok" =>
             LET body == res.v.functions[1].func.value.body IN
             /\ body.k = "Move"
             /\ Len(body.locals) = Len(lets)
             /\ \A k \in 1..Len(lets) :
                    body.locals[k][1].value.name = BodyFieldNames[lets[k]]
             /\ Len(body.code) = Len(labels)
             /\ \A k \in 1..Len(labels) :
                    LET block == body.code[k].value
                        next == IF k < Len(labels) THEN labels[k + 1] ELSE n + 1
                        places == StatementsBetween(gen, labels[k], next)
                    IN
                    /\ block.label.value.name = BodyFieldNames[labels[k]]
                    /\ Len(block.statements) = Len(places)
                    /\ \A m \in 1..Len(places) :
                           /\ block.statements[m].value.k = "Abort"
                           /\ block.statements[m].value.val.value.val.value.val
                                  = NumChars(BodyNumbers[places[m]])

\* let p:u8; label q: abort 7; abort 255;
C27_Witness ==
    /\ pc = "done"
    /\ gen = <<1, 2, 3, 3>>
    /\ res.st = "ok"
    /\ Len(res.v.functions[1].func.value.body.locals) = 1
    /\ Len(res.v.functions[1].func.value.body.code) = 1
    /\ Len(res.v.functions[1].func.value.body.code[1].value.statements) = 2

\* label p: let q:u8; , a let after a label: rejected
C27_WitnessLate ==
    /\ pc = "done"
    /\ gen = <<2, 1>>
    /\ res.st = "err"
    /\ res.err.kind = "InvalidToken"

(***************************************************************************)
(* OpenIdAuthenticator::verify_secure_generic.  The cryptographic          *)
(* primitives are oracles: what a key, a signature or a proof is worth is  *)
(* part of the input.                                                      *)
(***************************************************************************)
Google == "https://accounts.google.com"
FoundationAddress == "0x73a6b3c33e2d63383de5c6786cbaca231ff789f4c853af6d54cb883d8780adc0"

\* `(&self.vk).into()`: the address derived from the verifying key
AddressOfVk(vk) == IF vk = "vk1" THEN "addr1" ELSE "addr2"

\* iss, alg and typ of the masked content: all as required, or one off
MaskedContents ==
    {[iss |-> Google, alg |-> "RS256", typ |-> "JWT", kid |-> "k1"],
     [iss |-> "https://issuer.example", alg |-> "RS256", typ |-> "JWT", kid |-> "k1"],
     [iss |-> Google, alg |-> "HS256", typ |-> "JWT", kid |-> "k1"],
     [iss |-> Google, alg |-> "RS256", typ |-> "JWS", kid |-> "k1"]}

\* a bulletin entry: n and e are not base64, or decode to no RSA key, or
\* make a key under which the JWT signature does not verify, or one under
\* which it does
BulletinKeys == {"undecodable", "invalid", "other", "signer"}
BulletinEntries ==
    [kid : {"k1", "k2"}, iss : {Google, "https://issuer.example"}, key : BulletinKeys]

\* Option<EpochId>
NoEpoch == [some |-> FALSE]
SomeEpoch(e) == [some |-> TRUE, v |-> e]
unwrap_or(o, d) == IF o.some THEN o.v ELSE d

Authenticators ==
    [vk : {"vk1"},
     author : {"addr1", "addr2"},
     masked_content : MaskedContents,
     max_epoch : 0..MaxEpoch,
     epoch : {NoEpoch} \cup {SomeEpoch(e) : e \in 0..(MaxEpoch + 1)},
     bulletin_signer : {FoundationAddress, "0x0"},
     bulletin : UNION {[1..n -> BulletinEntries] : n \in 0..MaxBulletin},
     jwt_signature : {"wellformed", "malformed"},
     user_signature : BOOLEAN,
     proof : {"valid", "invalid", "malformed"}]

InvalidAuthenticator == [st |-> "err", err |-> "InvalidAuthenticator"]
InvalidSignature(error) == [st |-> "err", err |-> "InvalidSignature", error |-> error]

\* the for loop over the bulletin, from entry i on: [st, verified]
RECURSIVE bulletin_loop(_, _, _)
bulletin_loop(self, i, verified) ==
    IF i > Len(self.bulletin) THEN [st |-> "ok", verified |-> verified]
    ELSE LET info == self.bulletin[i] IN
         IF info.kid = self.masked_content.kid /\ info.iss = self.masked_content.iss
         THEN IF info.key = "undecodable"
              THEN [st |-> "panic", err |-> "unwrap of a decode error"]
              ELSE IF info.key = "invalid"
              THEN [st |-> "err", err |-> "FastCryptoError"]
              ELSE bulletin_loop(self, i + 1, verified \/ info.key = "signer")
         ELSE bulletin_loop(self, i + 1, verified)

verify_secure_generic(self, author, epoch) ==
    IF author # AddressOfVk(self.vk) THEN InvalidAuthenticator
    ELSE IF \/ self.masked_content.iss # Google
            \/ self.masked_content.alg # "RS256"
            \/ self.masked_content.typ # "JWT"
    THEN InvalidAuthenticator
    ELSE IF self.max_epoch < unwrap_or(epoch, 0) THEN InvalidAuthenticator
    ELSE IF self.bulletin_signer # FoundationAddress
    THEN InvalidSignature("Bulletin signature verify failed")
    ELSE IF self.jwt_signature # "wellformed" THEN [st |-> "err", err |-> "FastCryptoError"]
    ELSE LET l == bulletin_loop(self, 1, FALSE) IN
         IF l.st # "ok" THEN l
         ELSE IF ~l.verified THEN InvalidSignature("JWT signature verify failed")
         ELSE IF ~self.user_signature THEN InvalidSignature("User signature verify failed")
         ELSE IF self.proof = "valid" THEN [st |-> "ok"]
         ELSE InvalidSignature("Groth16 proof verification failed")

InitOpenId ==
    /\ gen \in Authenticators
    /\ text = <<>>
    /\ pc = "input"
    /\ call = "none"
    /\ res = NoRes

VerifySecureGeneric ==
    /\ pc = "input"
    /\ res' = verify_secure_generic(gen, gen.author, gen.epoch)
    /\ call' = "verify_secure_generic"
    /\ pc' = "done"
    /\ UNCHANGED <<text, gen>>

NextOpenId == VerifySecureGeneric

SpecOpenId == InitOpenId /\ [][NextOpenId]_vars

\* every check the verification names, on the input
AllChecksPass(a) ==
    /\ a.author = AddressOfVk(a.vk)
    /\ a.masked_content.iss = Google
    /\ a.masked_content.alg = "RS256"
    /\ a.masked_content.typ = "JWT"
    /\ a.max_epoch >= (IF a.epoch.some THEN a.epoch.v ELSE 0)
    /\ a.bulletin_signer = FoundationAddress
    /\ \E i \in 1..Len(a.bulletin) :
           /\ a.bulletin[i].kid = a.masked_content.kid
           /\ a.bulletin[i].iss = a.masked_content.iss
           /\ a.jwt_signature = "wellformed"
           /\ a.bulletin[i].key = "signer"
    /\ a.user_signature
    /\ a.proof = "valid"

\* C28: verify_secure_generic returns Ok(()) only if every check passed,
\* and when one of them fails the result is an error.
C28_VerifyChecks ==
    pc = "done" =>
        /\ res.st = "ok" => AllChecksPass(gen)
        /\ ~AllChecksPass(gen) => res.st = "err"

\* the part of C28 that holds: Ok(()) only if every check passed
AcceptsOnlyChecked == (pc = "done" /\ res.st = "ok") => AllChecksPass(gen)

(***************************************************************************)
(* parse_module_string applied to every prefix of a module.                *)
(***************************************************************************)
\* a module that goes through every loop of the parser at least twice
WholeModule ==
    <<"module", " ", "0x1", ".", "M", "{",
      "friend", " ", "0x2", ".", "K", ";", "friend", " ", "0x2", ".", "N", ";",
      "import", " ", "0x2", ".", "K", ";", "import", " ", "0x2", ".", "N", ";",
      "synthetic", " ", "s", ":", "u8", ";", "synthetic", " ", "t", ":", "u8", ";",
      "struct", " ", "S", " ", "has", " ", "copy", ",", "drop", "{", "f", ":", "u8", ",",
      "g", ":", "u8", ",", "invariant", " ", "f", ">", "0", ",", "invariant", " ", "g", ">",
      "0", "}",
      "native", " ", "struct", " ", "R", ";",
      "f", "<", "T", ":", "copy", "+", "drop", ",", "U", ">", "(", "x", ":", "T", ",", "y",
      ":", "u8", ")", ":", "u8", "*", "u8", "*", "T", " ", "acquires", " ", "S", ",", "R", ",",
      "S", " ",
      "ensures", " ", "RET", ".", "f", "[", "0", "]", ".", "g", "=", "=", "h", "(", "x",
      ",", "y", ",", "1", ")", "+", "1", "*", "2", " ",
      "requires", " ", "x", ">", "0", " ",
      "{", "let", " ", "a", ":", "u8", ";", "let", " ", "b", ":", "u8", ";",
      "label", " ", "b0", ":", "a", "=", "1", "+", "2", "*", "7", "+", "1", ";",
      "a", ",", "b", "=", "(", "1", ",", "2", ")", ";",
      "label", " ", "b1", ":", "return", ";", "}",
      "native", " ", "g", "(", ")", ";",
      "}">>

\* a module whose function has the visibility `public(script)`
AbortingModule ==
    <<"module", " ", "0x1", ".", "M", "{", "public", "(", "script", ")", "f", "(", ")",
      "{", "label", " ", "b0", ":", "return", ";", "}", "}">>

TruncatedModules == <<WholeModule, AbortingModule>>

\* a module cut after its first n atoms
Truncations ==
    {g \in [mod : 1..Len(TruncatedModules), cut : 0..Len(WholeModule)] :
        g.cut <= Len(TruncatedModules[g.mod])}

InitTruncated ==
    /\ gen \in Truncations
    /\ text = SubSeq(TruncatedModules[gen.mod], 1, gen.cut)
    /\ pc = "input"
    /\ call = "none"
    /\ res = NoRes

NextTruncated == ParseModuleString

SpecTruncated == InitTruncated /\ [][NextTruncated]_vars

\* the parser loops
ParserLoops ==
    {"comma_list_loop", "list_loop", "binary_exp_loop", "block_statements", "blocks_loop",
     "declarations_loop", "return_type_loop", "acquire_list_loop", "fields_and_indices_loop",
     "spec_call_args", "spec_exp_loop", "specifications_loop", "imports_loop",
     "friends_loop", "synthetics_loop", "structs_loop", "functions_loop"}

\* C29: on every prefix of a module, every iteration of every parser loop consumes
\* at least one token, and parse_module_string returns a module or an error: it
\* returns the module only for the whole text, and an error for every text that
\* ends inside an unclosed construct.
C29_Terminates ==
    pc = "done" =>
        /\ \A it \in res.L.iters : it.consumed
        /\ res.st \in {"ok", "err"}
        /\ res.st = "ok" <=> gen.cut = Len(TruncatedModules[gen.mod])

\* every iteration of every parser loop that went on to a next iteration consumed
\* at least one token, whatever the outcome of the parse
LoopProgress ==
    pc = "done" => \A it \in res.L.iters : it.loop \in ParserLoops /\ it.consumed

\* every prefix of the module without a `public(script)` function is answered by a
\* module or an error, the module only for the whole text
TruncatedReturns ==
    (pc = "done" /\ gen.mod = 1) =>
        /\ res.st \in {"ok", "err"}
        /\ res.st = "ok" <=> gen.cut = Len(WholeModule)

\* the whole module runs every parser loop past a first iteration
AllLoopsRun ==
    /\ pc = "done"
    /\ gen = [mod |-> 1, cut |-> Len(WholeModule)]
    /\ res.st = "ok"
    /\ {it.loop : it \in res.L.iters} = ParserLoops

(***************************************************************************)
(* parse_module_string applied to modules whose function follows           *)
(* synthetics, a struct with an invariant, and its own spec conditions.    *)
(***************************************************************************)
LeakSynthetic == <<"synthetic", " ", "s", ":", "u8", ";">>

LeakStruct == <<"struct", " ", "S", "{", "f", ":", "u8", ",", "invariant", " ", "f", ">", "0", "}">>

LeakHeads ==
    << <<"f", "(", ")">>,
       <<"f", "<", "T", ">", "(", ")">>,
       <<"public", " ", "f", "<", "T", ">", "(", "x", ":", "T", ")">>,
       <<"f", "<", "T", ":", "copy", ">", "(", ")">>,
       <<"native", " ", "g", "<", "T", ">", "(", ")">>,
       <<"g", "(", "x", ":", "u8", ")", ":", "u8">> >>

LeakCondition == <<" ", "ensures", " ", "x", ">", "0", " ">>

LeakBodies ==
    << <<"{", "label", " ", "b0", ":", "return", ";", "}">>,
       <<";">>,
       <<"{", "let", " ", "a", ":", "u8", ";", "label", " ", "b0", ":", "a", "=", "1", ";",
         "return", ";", "}">> >>

RECURSIVE Repeated(_, _)
Repeated(s, n) == IF n = 0 THEN <<>> ELSE s \o Repeated(s, n - 1)

LeakModules ==
    [syn : 0..MaxSyn, str : 0..1, head : 1..Len(LeakHeads), cond : 0..MaxSyn,
     body : 1..Len(LeakBodies)]

LeakText(g) ==
    <<"module", " ", "0x1", ".", "M", "{">> \o Repeated(LeakSynthetic, g.syn)
        \o Repeated(LeakStruct, g.str) \o LeakHeads[g.head]
        \o Repeated(LeakCondition, g.cond) \o LeakBodies[g.body] \o <<"}">>

InitLeak ==
    /\ gen \in LeakModules
    /\ text = LeakText(gen)
    /\ pc = "input"
    /\ call = "none"
    /\ res = NoRes

NextLeak == ParseModuleString

SpecLeak == InitLeak /\ [][NextLeak]_vars

\* C30: every token that a procedure running with spec_mode false has consumed or
\* has rejected was tokenised with spec_mode false.
C30_NoLeak ==
    pc = "done" => \A t \in res.L.seen : ~t.lexed_spec

\* a native head with the body `;`, any other head with a braced body
LeakWellFormed(g) == (g.head = 5) <=> (g.body = 2)

\* the function follows a synthetic directly and its name is followed by `<`
GenericAfterSynthetic(g) == g.syn > 0 /\ g.str = 0 /\ g.head \in {2, 4}

\* what the parser does with the generated modules: the well-formed ones are
\* accepted but those whose generic function directly follows a synthetic
LeakAsBuilt ==
    pc = "done" =>
        /\ res.st \in {"ok", "err"}
        /\ res.st = "ok" <=> (LeakWellFormed(gen) /\ ~GenericAfterSynthetic(gen))

====
